---- MODULE Spec2Model ----
(***************************************************************************)
(* Verification model of the intune-diagnostics instruction core:          *)
(*   - the scenario execution tracker (backend/services/scenario_state.py) *)
(*   - the scenario store and its search (mcp_servers/instructions/store.py)*)
(*   - the placeholder tools (mcp_servers/instructions/server.py)          *)
(*   - the entity resolver (backend/services/entity_resolution.py)         *)
(* Text is modelled as sequences of one-character strings, a Python dict   *)
(* as a TLA+ function together with its insertion order where the code     *)
(* iterates over it, and Optional[T] as a sequence of length 0 or 1.       *)
(***************************************************************************)
EXTENDS Integers, Sequences, FiniteSets, TLC

VARIABLES
    active_scenario,   \* ScenarioStateTracker.active_scenario : Optional[ScenarioExecution]
    call,              \* the last tracker operation invoked, its arguments and its return value
    scenarios,         \* ScenarioStore.scenarios : Dict[slug, Scenario], in insertion order
    keyword_index,     \* ScenarioStore._keyword_index : Dict[keyword, List[slug]]
    search_call,       \* the last ScenarioStore.search call: its arguments and its result
    tool_call,         \* the last validate_placeholders / substitute_and_get_query tool call
    message,           \* the chat message handed to resolve_entities
    resolve_call,      \* the last resolve_entities call: its arguments and its result
    instructions_md,   \* the text of the instructions file that load_from_file reads
    conversation_state_service,  \* the global _conversation_state_service : Optional[...]
    session_file,      \* conversation_state.json : the persisted context, if the file exists
    context_call       \* the last conversation-state operation, its arguments and its result

trackerVars == <<active_scenario, call>>

storeVars == <<scenarios, keyword_index, search_call>>

toolVars == <<tool_call>>

resolveVars == <<message, resolve_call>>

parserVars == <<instructions_md>>

contextVars == <<conversation_state_service, session_file, context_call>>

vars == <<active_scenario, call, scenarios, keyword_index, search_call, tool_call,
          message, resolve_call, instructions_md, conversation_state_service, session_file,
          context_call>>

----------------------------------------------------------------------------
(* Bounds *)

\* steps handed to start_scenario: at most MaxSteps definitions, numbered 1..MaxSteps
MaxSteps == 2

\* scenarios held by the store at once
MaxScenarios == 2

\* pieces (tokens or loose text) a query template is made of
MaxPieces == 3

\* phrases a chat message is made of
MaxPhrases == 3

\* blocks an instructions file holds after its first scenario heading
MaxBlocks == 3

----------------------------------------------------------------------------
(* Generic helpers *)

None == <<>>

Some(x) == <<x>>

Max(a, b) == IF a >= b THEN a ELSE b

SeqsUpTo(S, n) == UNION {[1..k -> S] : k \in 0..n}

Range(s) == {s[i] : i \in 1..Len(s)}

\* dict.get(key, default)
DictGet(d, key, default) == IF key \in DOMAIN d THEN d[key] ELSE default

----------------------------------------------------------------------------
(* Text: a Python str is a sequence of one-character strings *)

UpperCase ==
    <<"A", "B", "C", "D", "E", "F", "G", "H", "I", "J", "K", "L", "M",
      "N", "O", "P", "Q", "R", "S", "T", "U", "V", "W", "X", "Y", "Z">>

LowerCase ==
    <<"a", "b", "c", "d", "e", "f", "g", "h", "i", "j", "k", "l", "m",
      "n", "o", "p", "q", "r", "s", "t", "u", "v", "w", "x", "y", "z">>

Digits == {"0", "1", "2", "3", "4", "5", "6", "7", "8", "9"}

Letters == Range(UpperCase) \cup Range(LowerCase)

Whitespace == {" ", "\n", "\t", "\r", "\f"}

\* str.lower() on one character
LowerMap ==
    [c \in Range(UpperCase) |-> LowerCase[CHOOSE i \in 1..Len(UpperCase) : UpperCase[i] = c]]

LowerChar(c) == IF c \in DOMAIN LowerMap THEN LowerMap[c] ELSE c

\* str.lower()
Lower(s) == [i \in 1..Len(s) |-> LowerChar(s[i])]

\* str.strip()
Strip(s) ==
    LET keep == {i \in 1..Len(s) : s[i] \notin Whitespace}
    IN  IF keep = {} THEN <<>>
        ELSE SubSeq(s, CHOOSE i \in keep : \A j \in keep : i <= j,
                       CHOOSE i \in keep : \A j \in keep : i >= j)

\* str.replace(old, new) for a one-character old and new
ReplaceChar(s, old, new) == [i \in 1..Len(s) |-> IF s[i] = old THEN new ELSE s[i]]

\* s[i:] starts with sub
MatchAt(s, i, sub) ==
    /\ i + Len(sub) - 1 <= Len(s)
    /\ \A j \in 1..Len(sub) : s[i + j - 1] = sub[j]

\* Python `sub in s`
Contains(sub, s) == \E i \in 1..(Len(s) + 1) : MatchAt(s, i, sub)

\* the regex class \w
IsWordChar(c) == c \in Letters \cup Digits \cup {"_"}

\* re.findall(r'\w+', s): the maximal runs of word characters, left to right
RECURSIVE WordScan(_, _, _, _)
WordScan(s, i, cur, acc) ==
    IF i > Len(s) THEN (IF cur = <<>> THEN acc ELSE Append(acc, cur))
    ELSE IF IsWordChar(s[i]) THEN WordScan(s, i + 1, Append(cur, s[i]), acc)
    ELSE WordScan(s, i + 1, <<>>, IF cur = <<>> THEN acc ELSE Append(acc, cur))

FindAllWords(s) == WordScan(s, 1, <<>>, <<>>)

\* " ".join(parts)
RECURSIVE JoinSpace(_)
JoinSpace(parts) ==
    IF parts = <<>> THEN <<>>
    ELSE IF Len(parts) = 1 THEN parts[1]
    ELSE parts[1] \o <<" ">> \o JoinSpace(Tail(parts))

\* sum(f[i] for i in 1..Len(f))
RECURSIVE SumSeq(_)
SumSeq(f) == IF f = <<>> THEN 0 ELSE f[1] + SumSeq(Tail(f))

----------------------------------------------------------------------------
(* Scenario execution tracker: scenario_state.py *)

\* the slug is opaque to the tracker
Slugs == { <<"d", "e", "v", "i", "c", "e", "-", "d", "e", "t", "a", "i", "l", "s">> }

\* the result / error / reason a Mark* call carries (opaque to the tracker)
Payloads == {"payload"}

NoPayload == "None"

\* @dataclass ScenarioStep
ScenarioStep(step_number, query_id) ==
    [step_number |-> step_number, query_id |-> query_id,
     status |-> "pending", result |-> NoPayload, error |-> NoPayload]

\* Step definitions as a caller of the tracker API supplies them
\* (dicts carrying 'step_number' and 'query_id').
StepDicts(slug) ==
    {[step_number |-> n, query_id |-> <<slug, n>>] : n \in 1..MaxSteps}

\* The insertion order of the keys of execution.steps after the loop of
\* start_scenario: a key keeps the position of its first insertion.
RECURSIVE StepKeys(_)
StepKeys(steps) ==
    IF steps = <<>> THEN <<>>
    ELSE LET rest == StepKeys(SubSeq(steps, 1, Len(steps) - 1))
             k == DictGet(steps[Len(steps)], "step_number", 0)
         IN  IF k \in Range(rest) THEN rest ELSE Append(rest, k)

\* The value stored under key k: the last definition carrying that number wins.
LastIndexOf(steps, k) ==
    CHOOSE i \in 1..Len(steps) :
        /\ DictGet(steps[i], "step_number", 0) = k
        /\ \A j \in (i + 1)..Len(steps) : DictGet(steps[j], "step_number", 0) # k

\* ScenarioStateTracker.start_scenario: the ScenarioExecution it builds
start_scenario(slug, steps) ==
    LET keys == StepKeys(steps)
    IN  [scenario_slug |-> slug,
         total_steps |-> Len(steps),
         current_step |-> 0,
         keys |-> keys,
         steps |-> [k \in Range(keys) |->
                      ScenarioStep(k, DictGet(steps[LastIndexOf(steps, k)], "query_id", <<>>))]]

\* ScenarioExecution.is_complete
is_complete(e) == e.current_step >= e.total_steps

\* ScenarioExecution.get_next_pending_step: first pending step in dict order
get_next_pending_step(e) ==
    LET pend == {i \in 1..Len(e.keys) : e.steps[e.keys[i]].status = "pending"}
    IN  IF pend = {} THEN None
        ELSE Some(e.steps[e.keys[CHOOSE i \in pend : \A j \in pend : i <= j]])

\* mark_step_complete with current_step assigned the step number (no max)
mark_step_complete_nomax(e, step_number, result) ==
    IF step_number \in DOMAIN e.steps
    THEN [e EXCEPT !.steps[step_number].status = "completed",
                   !.steps[step_number].result = result,
                   !.current_step = step_number]
    ELSE e

\* ScenarioExecution.mark_step_complete
mark_step_complete(e, step_number, result) ==
    IF step_number \in DOMAIN e.steps
    THEN [e EXCEPT !.steps[step_number].status = "completed",
                   !.steps[step_number].result = result,
                   !.current_step = Max(@, step_number)]
    ELSE e

\* mark_step_failed putting the step back to pending for a retry
mark_step_failed_retry(e, step_number, error) ==
    IF step_number \in DOMAIN e.steps
    THEN [e EXCEPT !.steps[step_number].status = "pending",
                   !.steps[step_number].error = error,
                   !.current_step = Max(@, step_number)]
    ELSE e

\* ScenarioExecution.mark_step_failed
mark_step_failed(e, step_number, error) ==
    IF step_number \in DOMAIN e.steps
    THEN [e EXCEPT !.steps[step_number].status = "failed",
                   !.steps[step_number].error = error,
                   !.current_step = Max(@, step_number)]
    ELSE e

\* ScenarioExecution.mark_step_skipped
mark_step_skipped(e, step_number, reason) ==
    IF step_number \in DOMAIN e.steps
    THEN [e EXCEPT !.steps[step_number].status = "skipped",
                   !.steps[step_number].error = reason,
                   !.current_step = Max(@, step_number)]
    ELSE e

CountStatus(e, st) == Cardinality({k \in DOMAIN e.steps : e.steps[k].status = st})

\* ScenarioExecution.get_progress_summary: the numbers the summary text prints
get_progress_summary(e) ==
    [completed |-> CountStatus(e, "completed"), total |-> e.total_steps,
     failed |-> CountStatus(e, "failed"), skipped |-> CountStatus(e, "skipped")]

NoCall == [op |-> "none", step |-> 0, ret |-> None]

TrackerInit ==
    /\ active_scenario = None
    /\ call = NoCall

StartScenario(slug, steps) ==
    /\ active_scenario' = Some(start_scenario(slug, steps))
    /\ call' = [op |-> "start_scenario", step |-> 0, ret |-> None]
    /\ UNCHANGED <<storeVars, toolVars, resolveVars, parserVars, contextVars>>

\* clear_scenario leaving the active run in place
ClearScenario_keeps_run ==
    /\ call' = [op |-> "clear_scenario", step |-> 0,
                ret |-> IF active_scenario # None
                        THEN Some(get_progress_summary(active_scenario[1])) ELSE None]
    /\ UNCHANGED <<active_scenario, storeVars, toolVars, resolveVars, parserVars,
                   contextVars>>

\* ScenarioStateTracker.clear_scenario; ret is the progress summary it logs
\* for the run it drops
ClearScenario ==
    /\ active_scenario' = None
    /\ call' = [op |-> "clear_scenario", step |-> 0,
                ret |-> IF active_scenario # None
                        THEN Some(get_progress_summary(active_scenario[1])) ELSE None]
    /\ UNCHANGED <<storeVars, toolVars, resolveVars, parserVars, contextVars>>

\* _magentic_event_callback on a function-call event named get_scenario that
\* carries a result: a result dict with 'steps' starts the tracking, under
\* its 'slug' or "unknown"
GetScenarioResult(result_data) ==
    /\ active_scenario' =
          IF "steps" \in DOMAIN result_data
          THEN Some(start_scenario(DictGet(result_data, "slug", <<"u", "n", "k", "n", "o", "w", "n">>),
                                   result_data.steps))
          ELSE active_scenario
    /\ call' = [op |-> "get_scenario_result", step |-> 0,
                ret |-> IF "steps" \in DOMAIN result_data
                        THEN Some(Len(result_data.steps)) ELSE None]
    /\ UNCHANGED <<storeVars, toolVars, resolveVars, parserVars, contextVars>>

MarkStepComplete(n, result) ==
    /\ active_scenario # None
    /\ active_scenario' = Some(mark_step_complete(active_scenario[1], n, result))
    /\ call' = [op |-> "mark_step_complete", step |-> n, ret |-> None]
    /\ UNCHANGED <<storeVars, toolVars, resolveVars, parserVars, contextVars>>

MarkStepFailed(n, error) ==
    /\ active_scenario # None
    /\ active_scenario' = Some(mark_step_failed(active_scenario[1], n, error))
    /\ call' = [op |-> "mark_step_failed", step |-> n, ret |-> None]
    /\ UNCHANGED <<storeVars, toolVars, resolveVars, parserVars, contextVars>>

MarkStepSkipped(n, reason) ==
    /\ active_scenario # None
    /\ active_scenario' = Some(mark_step_skipped(active_scenario[1], n, reason))
    /\ call' = [op |-> "mark_step_skipped", step |-> n, ret |-> None]
    /\ UNCHANGED <<storeVars, toolVars, resolveVars, parserVars, contextVars>>

GetNextPendingStep ==
    /\ active_scenario # None
    /\ call' = [op |-> "get_next_pending_step", step |-> 0,
                ret |-> get_next_pending_step(active_scenario[1])]
    /\ UNCHANGED <<active_scenario, storeVars, toolVars, resolveVars, parserVars, contextVars>>

IsComplete ==
    /\ active_scenario # None
    /\ call' = [op |-> "is_complete", step |-> 0,
                ret |-> Some(is_complete(active_scenario[1]))]
    /\ UNCHANGED <<active_scenario, storeVars, toolVars, resolveVars, parserVars, contextVars>>

GetProgressSummary ==
    /\ active_scenario # None
    /\ call' = [op |-> "get_progress_summary", step |-> 0,
                ret |-> Some(get_progress_summary(active_scenario[1]))]
    /\ UNCHANGED <<active_scenario, storeVars, toolVars, resolveVars, parserVars, contextVars>>

\* step numbers a Mark* call may name: tracked ones, 0 and one past the range
MarkArgs == 0..(MaxSteps + 1)

DoStartScenario ==
    \E slug \in Slugs : \E steps \in SeqsUpTo(StepDicts(slug), MaxSteps) :
        StartScenario(slug, steps)

\* _magentic_event_callback on a function-call event named execute_query
\* that carries a result: the next pending step of the active run, if any,
\* is marked complete with that result
ExecuteQueryResult(fn_result) ==
    /\ active_scenario' =
          IF active_scenario # None /\ get_next_pending_step(active_scenario[1]) # None
          THEN Some(mark_step_complete(
                        active_scenario[1],
                        get_next_pending_step(active_scenario[1])[1].step_number,
                        fn_result))
          ELSE active_scenario
    /\ call' = [op |-> "execute_query_result", step |-> 0, ret |-> None]
    /\ UNCHANGED <<storeVars, toolVars, resolveVars, parserVars, contextVars>>

\* the (non-empty) results an execute_query event carries
FunctionResults == Payloads \cup {"rows", "no rows", "error text"}

DoExecuteQueryResult == \E fn_result \in FunctionResults : ExecuteQueryResult(fn_result)

DoMarkStepComplete == \E n \in MarkArgs, p \in Payloads : MarkStepComplete(n, p)

DoMarkStepFailed == \E n \in MarkArgs, p \in Payloads : MarkStepFailed(n, p)

DoMarkStepSkipped == \E n \in MarkArgs, p \in Payloads : MarkStepSkipped(n, p)


----------------------------------------------------------------------------
(* Placeholders: parser.py (_extract_placeholders, _infer_placeholder_type)
   and server.py (validate_placeholder_values, substitute_placeholders) *)

\* the character class [A-Za-z0-9_] of PLACEHOLDER_PATTERN
IsNameChar(c) == c \in Letters \cup Digits \cup {"_"}

\* the end of the maximal run of name characters starting at position i
RECURSIVE NameRunEnd(_, _)
NameRunEnd(s, i) ==
    IF i <= Len(s) /\ IsNameChar(s[i]) THEN NameRunEnd(s, i + 1) ELSE i - 1

\* <([A-Za-z][A-Za-z0-9_]*)> matches at position i: the position of its '>', else 0
TokenEndAt(s, i) ==
    IF i + 2 <= Len(s) /\ s[i] = "<" /\ s[i + 1] \in Letters
    THEN LET e == NameRunEnd(s, i + 1)
         IN  IF e + 1 <= Len(s) /\ s[e + 1] = ">" THEN e + 1 ELSE 0
    ELSE 0

\* PLACEHOLDER_PATTERN.finditer(s): the names matched, left to right
RECURSIVE TokenScan(_, _, _)
TokenScan(s, i, acc) ==
    IF i > Len(s) THEN acc
    ELSE IF TokenEndAt(s, i) > 0
         THEN TokenScan(s, TokenEndAt(s, i) + 1,
                        Append(acc, SubSeq(s, i + 1, TokenEndAt(s, i) - 1)))
         ELSE TokenScan(s, i + 1, acc)

FindTokens(s) == TokenScan(s, 1, <<>>)

\* f"<{placeholder_name}>"
Token(name) == <<"<">> \o name \o <<">">>

\* InstructionsParser._infer_placeholder_type
infer_placeholder_type(name) ==
    LET name_lower == Lower(name)
        Has(word) == Contains(word, name_lower)
    IN  IF Has(<<"i", "d">>) /\ ~Has(<<"l", "i", "s", "t">>) THEN "guid"
        ELSE IF Has(<<"l", "i", "s", "t">>) THEN "guid_list"
        ELSE IF Has(<<"t", "i", "m", "e">>) \/ Has(<<"d", "a", "t", "e">>) THEN "datetime"
        ELSE IF Has(<<"c", "o", "u", "n", "t">>) \/ Has(<<"l", "i", "m", "i", "t">>) THEN "integer"
        ELSE "string"

\* models.Placeholder as _extract_placeholders builds it
Placeholder(name) ==
    [name |-> name, type |-> infer_placeholder_type(name), required |-> TRUE]

\* the names of a token list, first occurrences only, in order
RECURSIVE FirstOccurrences(_)
FirstOccurrences(names) ==
    IF names = <<>> THEN <<>>
    ELSE LET rest == FirstOccurrences(SubSeq(names, 1, Len(names) - 1))
             last == names[Len(names)]
         IN  IF last \in Range(rest) THEN rest ELSE Append(rest, last)

\* one entry per match instead of one per name
extract_placeholders_every_match(query_text) ==
    LET names == FindTokens(query_text)
    IN  [i \in 1..Len(names) |-> Placeholder(names[i])]

\* InstructionsParser._extract_placeholders: the dict in insertion order
extract_placeholders(query_text) ==
    LET names == FirstOccurrences(FindTokens(query_text))
    IN  [i \in 1..Len(names) |-> Placeholder(names[i])]

\* models.QueryStep as _parse_scenario closes it: placeholders are extracted
\* only from a non-empty query text
QueryStep(step_number, title, query_id, query_text) ==
    [step_number |-> step_number,
     title |-> title,
     purpose |-> <<>>,
     query_id |-> query_id,
     query_text |-> query_text,
     placeholders |-> IF query_text # <<>> THEN extract_placeholders(query_text) ELSE <<>>,
     extracts |-> <<>>,
     provides_for_steps |-> <<>>,
     optional |-> FALSE]

HexDigits == Digits \cup {"a", "b", "c", "d", "e", "f", "A", "B", "C", "D", "E", "F"}

\* the regex `$`: the end of the text, or just before one final newline
AtEnd(v, i) == i = Len(v) + 1 \/ (i = Len(v) /\ v[i] = "\n")

\* [0-9a-f]{8}-[0-9a-f]{4}-[0-9a-f]{4}-[0-9a-f]{4}-[0-9a-f]{12} from position 1
GuidHyphens == {9, 14, 19, 24}

GuidLen == 36

\* server.is_valid_guid (re.IGNORECASE, anchored by ^ and $)
is_valid_guid(value) ==
    /\ Len(value) >= GuidLen
    /\ \A i \in 1..GuidLen :
          IF i \in GuidHyphens THEN value[i] = "-" ELSE value[i] \in HexDigits
    /\ AtEnd(value, GuidLen + 1)

\* \d{4}-\d{2}-\d{2} at position i
DateAt(v, i) ==
    /\ i + 9 <= Len(v)
    /\ \A j \in 0..9 : IF j \in {4, 7} THEN v[i + j] = "-" ELSE v[i + j] \in Digits

\* \d{2}:\d{2}:\d{2} at position i
TimeAt(v, i) ==
    /\ i + 7 <= Len(v)
    /\ \A j \in 0..7 : IF j \in {2, 5} THEN v[i + j] = ":" ELSE v[i + j] \in Digits

DatetimeOpen == <<"d", "a", "t", "e", "t", "i", "m", "e", "(">>

\* server.is_valid_datetime: any of the three patterns, matched from the start
is_valid_datetime(value) ==
    \/ DateAt(value, 1) /\ AtEnd(value, 11)
    \/ /\ DateAt(value, 1)
       /\ \E k \in 1..Len(value) :
             /\ \A j \in 11..(10 + k) : j <= Len(value) /\ value[j] \in Whitespace
             /\ TimeAt(value, 11 + k)
             /\ AtEnd(value, 19 + k)
    \/ /\ MatchAt(value, 1, DatetimeOpen)
       /\ \/ DateAt(value, Len(DatetimeOpen) + 1)
          \/ /\ Len(value) > Len(DatetimeOpen)
             /\ value[Len(DatetimeOpen) + 1] \in {"\"", "'"}
             /\ DateAt(value, Len(DatetimeOpen) + 2)

\* a missing required placeholder passed over in silence
PlaceholderErrors_skip_missing(placeholder, placeholder_values) ==
    IF placeholder.name \notin DOMAIN placeholder_values THEN <<>>
    ELSE IF /\ placeholder.type = "guid"
            /\ ~is_valid_guid(placeholder_values[placeholder.name])
         THEN <<[placeholder |-> placeholder.name, issue |-> "Invalid GUID format"]>>
    ELSE IF /\ placeholder.type = "datetime"
            /\ ~is_valid_datetime(placeholder_values[placeholder.name])
         THEN <<[placeholder |-> placeholder.name, issue |-> "Invalid datetime format"]>>
    ELSE <<>>

\* the ValidationError (if any) the loop body of validate_placeholder_values
\* appends for one placeholder
PlaceholderErrors(placeholder, placeholder_values) ==
    IF placeholder.required /\ placeholder.name \notin DOMAIN placeholder_values
    THEN <<[placeholder |-> placeholder.name, issue |-> "Required placeholder not provided"]>>
    ELSE IF placeholder.name \notin DOMAIN placeholder_values THEN <<>>
    ELSE IF /\ placeholder.type = "guid"
            /\ ~is_valid_guid(placeholder_values[placeholder.name])
         THEN <<[placeholder |-> placeholder.name, issue |-> "Invalid GUID format"]>>
    ELSE IF /\ placeholder.type = "datetime"
            /\ ~is_valid_datetime(placeholder_values[placeholder.name])
         THEN <<[placeholder |-> placeholder.name, issue |-> "Invalid datetime format"]>>
    ELSE <<>>

RECURSIVE CollectErrors(_, _)
CollectErrors(placeholders, placeholder_values) ==
    IF placeholders = <<>> THEN <<>>
    ELSE PlaceholderErrors(placeholders[1], placeholder_values)
         \o CollectErrors(Tail(placeholders), placeholder_values)

\* server.validate_placeholder_values
validate_placeholder_values(step, placeholder_values) ==
    LET errors == CollectErrors(step.placeholders, placeholder_values)
    IN  [valid |-> Len(errors) = 0, errors |-> errors]

\* the leftmost occurrence of old in s at or after position i, 0 if none
FindFrom(s, i, old) ==
    LET at == {k \in i..Len(s) : MatchAt(s, k, old)}
    IN  IF at = {} THEN 0 ELSE CHOOSE k \in at : \A j \in at : k <= j

\* str.replace(old, new) for a non-empty old: every non-overlapping occurrence,
\* left to right
RECURSIVE ReplaceFrom(_, _, _, _)
ReplaceFrom(s, i, old, new) ==
    LET k == FindFrom(s, i, old)
    IN  IF k = 0 THEN SubSeq(s, i, Len(s))
        ELSE SubSeq(s, i, k - 1) \o new \o ReplaceFrom(s, k + Len(old), old, new)

ReplaceAll(s, old, new) == ReplaceFrom(s, 1, old, new)

\* the loop of substitute_placeholders over the matches found in the original
\* text; the replacements are applied to the text as rewritten so far
RECURSIVE SubstituteLoop(_, _, _)
SubstituteLoop(matches, placeholder_values, acc) ==
    IF matches = <<>> THEN acc
    ELSE LET placeholder_name == matches[1]
         IN  SubstituteLoop(Tail(matches), placeholder_values,
                IF placeholder_name \in DOMAIN placeholder_values
                THEN [acc EXCEPT
                        !.query_text = ReplaceAll(@, Token(placeholder_name),
                                                  placeholder_values[placeholder_name]),
                        !.placeholders_used = @ \cup {placeholder_name}]
                ELSE [acc EXCEPT !.warnings = Append(@, placeholder_name)])

\* the substitution with its warnings dropped
substitute_placeholders_no_warnings(step, placeholder_values) ==
    [SubstituteLoop(FindTokens(step.query_text), placeholder_values,
                    [query_text |-> step.query_text, placeholders_used |-> {},
                     warnings |-> <<>>])
     EXCEPT !.warnings = <<>>]

\* server.substitute_placeholders; placeholders_used is given by its key set
\* (each key maps to placeholder_values[key]), a warning by the name it reports
substitute_placeholders(step, placeholder_values) ==
    SubstituteLoop(FindTokens(step.query_text), placeholder_values,
                   [query_text |-> step.query_text, placeholders_used |-> {},
                    warnings |-> <<>>])

----------------------------------------------------------------------------
(* Scenario store: backend/mcp_servers/instructions/store.py *)

\* Scenario records as the parser hands them to the store (models.Scenario):
\* slugs generated from the title or taken verbatim from the metadata block.
ScenAppStatus ==
    [slug |-> <<"a", "p", "p", "-", "s", "t", "a", "t", "u", "s">>,
     title |-> <<"A", "p", "p", " ", "S", "t", "a", "t", "u", "s">>,
     domain |-> <<"a", "p", "p">>,
     keywords |-> <<<<"a", "p", "p">>, <<"s", "t", "a", "t", "u", "s">>>>,
     required_identifiers |-> <<>>,
     aliases |-> <<<<"a", "p", "p", " ", "i", "n", "f", "o">>>>,
     description |-> <<"S", "t", "a", "t", "u", "s", " ", "o", "f", " ", "o", "n", "e", " ", "a", "p", "p">>,
     steps |-> <<QueryStep(1, <<"S", "t", "e", "p", " ", "1">>, <<"a", "p", "p", "-", "s", "t", "a", "t", "u", "s", "_", "s", "t", "e", "p", "1">>, <<"w", "h", "e", "r", "e", " ", "<", "D", "e", "v", "i", "c", "e", "I", "d", ">">>), QueryStep(2, <<"S", "t", "e", "p", " ", "2">>, <<"a", "p", "p", "-", "s", "t", "a", "t", "u", "s", "_", "s", "t", "e", "p", "2">>, <<"t", "a", "k", "e", " ", "<", "L", "i", "m", "i", "t", ">">>)>>]

ScenAppStatusLog ==
    [slug |-> <<"a", "p", "p", "-", "s", "t", "a", "t", "u", "s", "-", "l", "o", "g">>,
     title |-> <<"a", "p", "p", "-", "s", "t", "a", "t", "u", "s", " ", "l", "o", "g">>,
     domain |-> <<"a", "p", "p">>,
     keywords |-> <<<<"a", "p", "p", "-", "s", "t", "a", "t", "u", "s">>, <<"l", "o", "g">>>>,
     required_identifiers |-> <<>>,
     aliases |-> <<<<"a", "p", "p", "-", "s", "t", "a", "t", "u", "s">>>>,
     description |-> <<"L", "o", "g", " ", "f", "o", "r", " ", "a", "p", "p", "-", "s", "t", "a", "t", "u", "s">>,
     steps |-> <<QueryStep(1, <<"S", "t", "e", "p", " ", "1">>, <<"a", "p", "p", "-", "s", "t", "a", "t", "u", "s", "-", "l", "o", "g", "_", "s", "t", "e", "p", "1">>, <<"w", "h", "e", "r", "e", " ", "<", "D", "e", "v", "i", "c", "e", "I", "d", ">">>)>>]

ScenDeviceInfo ==
    [slug |-> <<"d", "e", "v", "i", "c", "e", "-", "i", "n", "f", "o">>,
     title |-> <<"D", "e", "v", "i", "c", "e", " ", "I", "n", "f", "o">>,
     domain |-> <<"d", "e", "v", "i", "c", "e">>,
     keywords |-> <<<<"d", "e", "v", "i", "c", "e">>>>,
     required_identifiers |-> <<>>,
     aliases |-> <<>>,
     description |-> <<>>,
     steps |-> <<QueryStep(1, <<"S", "t", "e", "p", " ", "1">>, <<"d", "e", "v", "i", "c", "e", "-", "i", "n", "f", "o", "_", "s", "t", "e", "p", "1">>, <<"w", "h", "e", "r", "e", " ", "<", "D", "e", "v", "i", "c", "e", "I", "d", ">">>)>>]

ScenAppStatusAgain ==
    [slug |-> <<"a", "p", "p", "-", "s", "t", "a", "t", "u", "s">>,
     title |-> <<"A", "p", "p", " ", "S", "t", "a", "t", "u", "s", " ", "v", "2">>,
     domain |-> <<>>,
     keywords |-> <<>>,
     required_identifiers |-> <<>>,
     aliases |-> <<>>,
     description |-> <<>>,
     steps |-> <<QueryStep(1, <<"S", "t", "e", "p", " ", "1">>, <<"a", "p", "p", "-", "s", "t", "a", "t", "u", "s", "_", "s", "t", "e", "p", "1">>, <<"w", "h", "e", "r", "e", " ", "<", "D", "e", "v", "i", "c", "e", "I", "d", ">">>)>>]

ScenRawSlug ==
    [slug |-> <<"A", "p", "p", "_", "S", "t", "a", "t", "u", "s">>,
     title |-> <<"R", "a", "w">>,
     domain |-> <<"a", "p", "p">>,
     keywords |-> <<<<" ", "R", "a", "w", " ">>>>,
     required_identifiers |-> <<>>,
     aliases |-> <<<<"R", "a", "w", "_", "S", "l", "u", "g">>>>,
     description |-> <<>>,
     steps |-> <<QueryStep(1, <<"S", "t", "e", "p", " ", "1">>, <<"A", "p", "p", "_", "S", "t", "a", "t", "u", "s", "_", "s", "t", "e", "p", "1">>, <<"w", "h", "e", "r", "e", " ", "<", "D", "e", "v", "i", "c", "e", "I", "d", ">">>)>>]

ScenarioPool ==
    {ScenAppStatus, ScenAppStatusLog, ScenDeviceInfo, ScenAppStatusAgain, ScenRawSlug}

\* query strings handed to search
SearchQueries ==
    {<<>>,
     <<"a", "p", "p", "-", "s", "t", "a", "t", "u", "s">>,
     <<"A", "p", "p", " ", "S", "t", "a", "t", "u", "s">>,
     <<"a", "p", "p", "_", "s", "t", "a", "t", "u", "s">>,
     <<"d", "e", "v", "i", "c", "e">>,
     <<"l", "o", "g">>,
     <<"z", "z", "z">>}

\* the optional domain argument; None and "" are both falsy in search and are
\* modelled as the empty text
SearchDomains ==
    {<<>>, <<"a", "p", "p">>, <<"d", "e", "v", "i", "c", "e">>}

\* position of the scenario stored under slug, 0 if there is none
IndexOfSlug(store, slug) ==
    IF \E i \in 1..Len(store) : store[i].slug = slug
    THEN CHOOSE i \in 1..Len(store) : store[i].slug = slug
    ELSE 0

\* self.scenarios[scenario.slug] = scenario (a dict keeps the first insertion position)
DictPut(store, scenario) ==
    IF IndexOfSlug(store, scenario.slug) = 0 THEN Append(store, scenario)
    ELSE [store EXCEPT ![IndexOfSlug(store, scenario.slug)] = scenario]

\* all_keywords of add_scenario, each stripped and lower-cased as the loop does
IndexedKeywords(scenario) ==
    LET all_keywords ==
            scenario.keywords \o <<Lower(scenario.title), scenario.slug>>
            \o (IF scenario.domain # <<>> THEN <<Lower(scenario.domain)>> ELSE <<>>)
            \o [i \in 1..Len(scenario.aliases) |-> Lower(scenario.aliases[i])]
    IN  {Lower(Strip(all_keywords[i])) : i \in 1..Len(all_keywords)}

\* the _keyword_index after add_scenario
IndexPut(index, scenario) ==
    LET kws == IndexedKeywords(scenario)
    IN  [k \in (DOMAIN index) \cup kws |->
            LET old == IF k \in DOMAIN index THEN index[k] ELSE <<>>
            IN  IF k \in kws /\ scenario.slug \notin Range(old)
                THEN Append(old, scenario.slug) ELSE old]

\* description[:200] + "..." of _make_summary
SummaryMaxLen == 200

\* ScenarioStore._make_summary
make_summary(scenario) ==
    [slug |-> scenario.slug,
     title |-> scenario.title,
     domain |-> scenario.domain,
     description |->
        IF Len(scenario.description) > SummaryMaxLen
        THEN SubSeq(scenario.description, 1, SummaryMaxLen) \o <<".", ".", ".">>
        ELSE scenario.description,
     required_identifiers |-> scenario.required_identifiers,
     num_queries |-> Len(scenario.steps),
     keywords |-> scenario.keywords]

\* normalized_query / normalized_alias: replace('_', '-').replace(' ', '-')
NormalizeSeparators(s) == ReplaceChar(ReplaceChar(s, "_", "-"), " ", "-")

\* The score the loop body of ScenarioStore.search gives one scenario
search_score(scenario, query) ==
    LET query_lower == Strip(Lower(query))
        query_words == FindAllWords(query_lower)
        normalized_query == NormalizeSeparators(query_lower)
        ExactAlias(alias) ==
            LET alias_lower == Strip(Lower(alias))
            IN  \/ query_lower = alias_lower
                \/ normalized_query = NormalizeSeparators(alias_lower)
        AliasContains(alias) == Contains(query_lower, Lower(alias))
        scenario_text ==
            Lower(scenario.title \o <<" ">> \o scenario.description \o <<" ">>
                  \o JoinSpace(scenario.keywords))
    IN    (IF query_lower = scenario.slug \/ normalized_query = scenario.slug
           THEN 100 ELSE 0)
        + (IF \E i \in 1..Len(scenario.aliases) : ExactAlias(scenario.aliases[i])
           THEN 95 ELSE 0)
        + (IF Contains(normalized_query, scenario.slug) THEN 50 ELSE 0)
        + (IF Contains(query_lower, Lower(scenario.title)) THEN 40 ELSE 0)
        + (IF \E i \in 1..Len(scenario.aliases) : AliasContains(scenario.aliases[i])
           THEN 35 ELSE 0)
        + SumSeq([i \in 1..Len(scenario.keywords) |->
                    IF \/ Contains(Lower(scenario.keywords[i]), query_lower)
                       \/ Contains(query_lower, Lower(scenario.keywords[i]))
                    THEN 20 ELSE 0])
        + (IF Contains(query_lower, Lower(scenario.description)) THEN 10 ELSE 0)
        + SumSeq([i \in 1..Len(query_words) |->
                    IF Contains(query_words[i], scenario_text) THEN 5 ELSE 0])

\* the scores collected with the domain argument ignored
Scores_any_domain(store, query, domain) ==
    LET all == [i \in 1..Len(store) |->
                   [scenario |-> store[i], score |-> search_score(store[i], query)]]
    IN  SelectSeq(all, LAMBDA e : e.score > 0)

\* the `scores` dict of search: the scenarios that pass the domain filter and
\* score above 0, in iteration order, each with its score
Scores(store, query, domain) ==
    LET all == [i \in 1..Len(store) |->
                   [scenario |-> store[i], score |-> search_score(store[i], query)]]
    IN  SelectSeq(all, LAMBDA e :
            /\ ~(domain # <<>> /\ e.scenario.domain # domain)
            /\ e.score > 0)

\* sorted(..., key=score, reverse=True): descending and stable
RECURSIVE SortByScoreDesc(_)
SortByScoreDesc(seq) ==
    IF seq = <<>> THEN <<>>
    ELSE LET best == CHOOSE i \in 1..Len(seq) :
                        /\ \A j \in 1..Len(seq) : seq[j].score <= seq[i].score
                        /\ \A j \in 1..(i - 1) : seq[j].score < seq[i].score
         IN  <<seq[best]>> \o
             SortByScoreDesc(SubSeq(seq, 1, best - 1) \o SubSeq(seq, best + 1, Len(seq)))

\* ScenarioStore.search
search(store, query, domain) ==
    LET sorted == SortByScoreDesc(Scores(store, query, domain))
    IN  [i \in 1..Len(sorted) |-> make_summary(sorted[i].scenario)]

NoSearch == [op |-> "none", query |-> <<>>, domain |-> <<>>, results |-> <<>>]

\* ScenarioStore.__init__
StoreInit ==
    /\ scenarios = <<>>
    /\ keyword_index = <<>>
    /\ search_call = NoSearch

\* ScenarioStore.add_scenario
AddScenario(scenario) ==
    /\ Len(DictPut(scenarios, scenario)) <= MaxScenarios
    /\ scenarios' = DictPut(scenarios, scenario)
    /\ keyword_index' = IndexPut(keyword_index, scenario)
    /\ search_call' = NoSearch   \* an earlier result no longer describes this store
    /\ UNCHANGED <<trackerVars, toolVars, resolveVars, parserVars, contextVars>>

\* ScenarioStore.search
Search(query, domain) ==
    /\ search_call' = [op |-> "search", query |-> query, domain |-> domain,
                       results |-> search(scenarios, query, domain)]
    /\ UNCHANGED <<scenarios, keyword_index, trackerVars, toolVars, resolveVars, parserVars, contextVars>>

\* ScenarioStore.get_scenario: the direct lookup, then the normalized key
\* against the stored slugs as they are, then the aliases in store order
get_scenario(store, slug) ==
    LET normalized_slug == NormalizeSeparators(Lower(slug))
        slug_lower == Strip(Lower(slug))
        AliasHit(alias) ==
            LET alias_lower == Strip(Lower(alias))
            IN  \/ slug_lower = alias_lower
                \/ normalized_slug = NormalizeSeparators(alias_lower)
        by_alias == {i \in 1..Len(store) :
                        \E a \in 1..Len(store[i].aliases) : AliasHit(store[i].aliases[a])}
    IN  IF IndexOfSlug(store, slug) > 0 THEN Some(store[IndexOfSlug(store, slug)])
        ELSE IF IndexOfSlug(store, normalized_slug) > 0
             THEN Some(store[IndexOfSlug(store, normalized_slug)])
        ELSE IF by_alias # {}
             THEN Some(store[CHOOSE i \in by_alias : \A j \in by_alias : i <= j])
        ELSE None

\* ScenarioStore.get_scenario
GetScenario(slug) ==
    /\ search_call' = [op |-> "get_scenario", query |-> slug, domain |-> <<>>,
                       results |-> get_scenario(scenarios, slug)]
    /\ UNCHANGED <<scenarios, keyword_index, trackerVars, toolVars, resolveVars,
                   parserVars, contextVars>>

DoAddScenario == \E scenario \in ScenarioPool : AddScenario(scenario)

DoGetScenario == \E slug \in SearchQueries : GetScenario(slug)

DoSearch == \E query \in SearchQueries, domain \in SearchDomains : Search(query, domain)

----------------------------------------------------------------------------
(* Tool handlers: backend/mcp_servers/instructions/server.py (call_tool) *)

\* Scenario.get_query_by_id / ScenarioStore.get_query_step: the first step, in
\* store and step order, whose query_id is the one asked for
get_query_step(store, query_id) ==
    LET hits == UNION {{<<i, j>> : j \in {k \in 1..Len(store[i].steps) :
                                                store[i].steps[k].query_id = query_id}}
                       : i \in 1..Len(store)}
    IN  IF hits = {} THEN None
        ELSE LET first == CHOOSE h \in hits : \A g \in hits :
                              h[1] < g[1] \/ (h[1] = g[1] /\ h[2] <= g[2])
             IN  Some([scenario |-> store[first[1]], step |-> store[first[1]].steps[first[2]]])

\* call_tool, name == "validate_placeholders": the JSON it returns
validate_placeholders_tool(store, query_id, placeholder_values) ==
    LET result == get_query_step(store, query_id)
    IN  IF result = None THEN [status |-> "not_found", query_id |-> query_id]
        ELSE LET validation_result ==
                     validate_placeholder_values(result[1].step, placeholder_values)
             IN  IF validation_result.valid
                 THEN [status |-> "success", valid |-> TRUE, query_id |-> query_id]
                 ELSE [status |-> "validation_failed", valid |-> FALSE,
                       query_id |-> query_id, errors |-> validation_result.errors]

\* the same tool substituting whatever the validation says
substitute_and_get_query_tool_unvalidated(store, query_id, placeholder_values, validate) ==
    LET result == get_query_step(store, query_id)
    IN  IF result = None THEN [status |-> "not_found", query_id |-> query_id]
        ELSE LET step == result[1].step
                 substitution_result == substitute_placeholders(step, placeholder_values)
             IN  [status |-> "success", query_id |-> query_id,
                  scenario_slug |-> result[1].scenario.slug,
                  step_number |-> step.step_number,
                  step_title |-> step.title,
                  query_text |-> substitution_result.query_text,
                  placeholders_used |-> substitution_result.placeholders_used,
                  warnings |-> substitution_result.warnings]

\* call_tool, name == "substitute_and_get_query": the JSON it returns
substitute_and_get_query_tool(store, query_id, placeholder_values, validate) ==
    LET result == get_query_step(store, query_id)
    IN  IF result = None THEN [status |-> "not_found", query_id |-> query_id]
        ELSE LET step == result[1].step
                 validation_result == validate_placeholder_values(step, placeholder_values)
                 substitution_result == substitute_placeholders(step, placeholder_values)
             IN  IF validate /\ ~validation_result.valid
                 THEN [status |-> "validation_failed", query_id |-> query_id,
                       errors |-> validation_result.errors]
                 ELSE [status |-> "success", query_id |-> query_id,
                       scenario_slug |-> result[1].scenario.slug,
                       step_number |-> step.step_number,
                       step_title |-> step.title,
                       query_text |-> substitution_result.query_text,
                       placeholders_used |-> substitution_result.placeholders_used,
                       warnings |-> substitution_result.warnings]

\* call_tool, name == "get_scenario": the JSON it returns (execution_mode
\* and critical_requirements, which no reader of the result uses, left out)
get_scenario_tool(store, slug) ==
    LET scenario == get_scenario(store, slug)
    IN  IF scenario = None THEN [status |-> "not_found", slug |-> slug]
        ELSE [status |-> "success",
              slug |-> scenario[1].slug,
              title |-> scenario[1].title,
              domain |-> scenario[1].domain,
              required_identifiers |-> scenario[1].required_identifiers,
              description |-> scenario[1].description,
              num_steps |-> Len(scenario[1].steps),
              steps |->
                  [i \in 1..Len(scenario[1].steps) |->
                      [order |-> scenario[1].steps[i].step_number,
                       query_id |-> scenario[1].steps[i].query_id,
                       title |-> scenario[1].steps[i].title,
                       purpose |-> scenario[1].steps[i].purpose,
                       placeholders |-> scenario[1].steps[i].placeholders,
                       extracts |-> scenario[1].steps[i].extracts,
                       provides_for_steps |-> scenario[1].steps[i].provides_for_steps,
                       optional |-> scenario[1].steps[i].optional]]]

\* the get_scenario results that reach the event callback: what the tool
\* delivers for a stored scenario, or its not-found answer
ScenarioResults ==
    {get_scenario_tool(DictPut(<<>>, scenario), scenario.slug) : scenario \in ScenarioPool}
    \cup {get_scenario_tool(<<>>, slug) : slug \in Slugs}

DoGetScenarioResult == \E result_data \in ScenarioResults : GetScenarioResult(result_data)

\* call_tool, name == "get_query": the JSON it returns
get_query_tool(store, query_id) ==
    LET result == get_query_step(store, query_id)
    IN  IF result = None THEN [status |-> "not_found", query_id |-> query_id]
        ELSE LET step == result[1].step
             IN  [status |-> "success", query_id |-> step.query_id,
                  scenario_slug |-> result[1].scenario.slug,
                  scenario_title |-> result[1].scenario.title,
                  step_number |-> step.step_number,
                  step_title |-> step.title,
                  purpose |-> step.purpose,
                  query_text |-> step.query_text,
                  placeholders |->
                      [i \in 1..Len(step.placeholders) |->
                          [name |-> step.placeholders[i].name,
                           type |-> step.placeholders[i].type,
                           required |-> step.placeholders[i].required]]]

NoToolCall == [name |-> "none"]

ToolInit == tool_call = NoToolCall

NoResolve == [op |-> "none"]

\* no chat message under analysis by the entity resolver
ResolveIdle == message = <<>> /\ resolve_call = NoResolve

\* no instructions file read
ParserIdle == instructions_md = <<>>

NoContextCall == [op |-> "none"]

\* the conversation-state module just imported, no state file on disk
ContextIdle ==
    /\ conversation_state_service = None
    /\ session_file = None
    /\ context_call = NoContextCall

\* the components a specification leaves aside
OthersIdle == ParserIdle /\ ContextIdle

GetQuery(query_id) ==
    /\ tool_call' = [name |-> "get_query", query_id |-> query_id,
                     response |-> get_query_tool(scenarios, query_id)]
    /\ UNCHANGED <<storeVars, trackerVars, resolveVars, parserVars, contextVars>>

ValidatePlaceholders(query_id, placeholder_values) ==
    /\ tool_call' = [name |-> "validate_placeholders", query_id |-> query_id,
                     placeholder_values |-> placeholder_values,
                     response |-> validate_placeholders_tool(scenarios, query_id,
                                                             placeholder_values)]
    /\ UNCHANGED <<storeVars, trackerVars, resolveVars, parserVars, contextVars>>

\* the handler writing the substituted text back into the stored step
SubstituteAndGetQuery_in_place(query_id, placeholder_values, validate) ==
    LET response == substitute_and_get_query_tool(scenarios, query_id,
                                                  placeholder_values, validate)
    IN  /\ tool_call' = [name |-> "substitute_and_get_query", query_id |-> query_id,
                         placeholder_values |-> placeholder_values,
                         validate |-> validate, response |-> response]
        /\ scenarios' =
              IF response.status # "success" THEN scenarios
              ELSE [i \in 1..Len(scenarios) |->
                      [scenarios[i] EXCEPT !.steps =
                          [j \in 1..Len(@) |->
                              IF @[j].query_id = query_id
                              THEN [@[j] EXCEPT !.query_text = response.query_text]
                              ELSE @[j]]]]
        /\ UNCHANGED <<keyword_index, search_call, trackerVars, resolveVars,
                       parserVars, contextVars>>

SubstituteAndGetQuery(query_id, placeholder_values, validate) ==
    /\ tool_call' = [name |-> "substitute_and_get_query", query_id |-> query_id,
                     placeholder_values |-> placeholder_values, validate |-> validate,
                     response |-> substitute_and_get_query_tool(scenarios, query_id,
                                                            placeholder_values, validate)]
    /\ UNCHANGED <<storeVars, trackerVars, resolveVars, parserVars, contextVars>>

\* Query templates: up to MaxPieces pieces, each a token or loose text
NameId == <<"I", "d">>

NameN == <<"N">>

TemplatePieces == {Token(NameId), Token(NameN), <<"<">>, <<">">>}

RECURSIVE Flatten(_)
Flatten(pieces) == IF pieces = <<>> THEN <<>> ELSE pieces[1] \o Flatten(Tail(pieces))

Templates == {Flatten(ps) : ps \in SeqsUpTo(TemplatePieces, MaxPieces) \ {<<>>}}

TemplateSlug == <<"t", "p", "l">>

TemplateQueryId == <<"t", "p", "l", "_", "s", "t", "e", "p", "1">>

UnknownQueryId == <<"t", "p", "l", "_", "s", "t", "e", "p", "9">>

\* the scenario the parser emits for a section holding one step with this query
TemplateScenario(query_text) ==
    [slug |-> TemplateSlug,
     title |-> <<"T", "p", "l">>,
     domain |-> <<>>,
     keywords |-> <<>>,
     required_identifiers |-> <<>>,
     aliases |-> <<>>,
     description |-> <<>>,
     steps |-> <<QueryStep(1, <<"T", "p", "l">>, TemplateQueryId, query_text)>>]

GuidValue == <<"1", "a", "2", "B", "3", "c", "4", "D", "-", "0", "0", "0", "0", "-", "1", "1", "1", "1", "-", "2", "2", "2", "2", "-", "5", "e", "6", "F", "7", "a", "8", "B", "9", "c", "0", "D">>

\* values a caller may supply for a name
ValueChoices(name) ==
    IF name = NameId THEN {GuidValue, <<"N">>}
    ELSE {<<"N">>, Token(NameN), Token(NameId)}

\* the placeholder_values argument: a dict over some of the names
ValueMaps ==
    UNION {{[n \in names |-> f[n]] : f \in {g \in [names -> UNION {ValueChoices(n) : n \in names}] :
                                              \A n \in names : g[n] \in ValueChoices(n)}}
           : names \in SUBSET {NameId, NameN}}

DoGetQuery == \E query_id \in {TemplateQueryId, UnknownQueryId} : GetQuery(query_id)

DoValidatePlaceholders ==
    \E query_id \in {TemplateQueryId, UnknownQueryId}, values \in ValueMaps :
        ValidatePlaceholders(query_id, values)

DoSubstituteAndGetQuery ==
    \E query_id \in {TemplateQueryId, UnknownQueryId}, values \in ValueMaps,
       validate \in BOOLEAN :
        SubstituteAndGetQuery(query_id, values, validate)

\* a store loaded with one parsed template scenario
InitSubst ==
    /\ TrackerInit
    /\ ToolInit
    /\ ResolveIdle
    /\ OthersIdle
    /\ search_call = NoSearch
    /\ \E t \in Templates :
          /\ scenarios = DictPut(<<>>, TemplateScenario(t))
          /\ keyword_index = IndexPut(<<>>, TemplateScenario(t))

----------------------------------------------------------------------------
(* Entity resolution: backend/services/entity_resolution.py *)

WINDOW == 4

device_id == <<"d", "e", "v", "i", "c", "e", "_", "i", "d">>

account_id == <<"a", "c", "c", "o", "u", "n", "t", "_", "i", "d">>

context_id == <<"c", "o", "n", "t", "e", "x", "t", "_", "i", "d">>

policy_id == <<"p", "o", "l", "i", "c", "y", "_", "i", "d">>

\* ROLE_KEYWORDS
ROLE_KEYWORDS ==
    [role \in {device_id, account_id, context_id, policy_id} |->
        IF role = device_id THEN <<<<"d", "e", "v", "i", "c", "e">>, <<"m", "a", "c", "h", "i", "n", "e">>, <<"e", "n", "d", "p", "o", "i", "n", "t">>, <<"c", "o", "m", "p", "u", "t", "e", "r">>>>
        ELSE IF role = account_id THEN <<<<"a", "c", "c", "o", "u", "n", "t">>, <<"t", "e", "n", "a", "n", "t">>, <<"u", "s", "e", "r">>, <<"p", "r", "i", "n", "c", "i", "p", "a", "l">>, <<"a", "a", "d">>>>
        ELSE IF role = context_id THEN <<<<"c", "o", "n", "t", "e", "x", "t">>, <<"c", "t", "x">>>>
        ELSE <<<<"p", "o", "l", "i", "c", "y">>, <<"p", "a", "y", "l", "o", "a", "d">>, <<"c", "o", "n", "f", "i", "g">>, <<"c", "o", "n", "f", "i", "g", "u", "r", "a", "t", "i", "o", "n">>>>]

\* the elements of a set of numbers in ascending order (the set is bound once)
Ascending(S) ==
    CHOOSE seq \in {[k \in 1..Cardinality(T) |->
                        CHOOSE i \in T : Cardinality({j \in T : j < i}) = k - 1]
                    : T \in {S}} : TRUE

\* the regex class [A-Za-z0-9_-]
TokenChars == Letters \cup Digits \cup {"_", "-"}

IsTokenChar(c) == c \in TokenChars

\* tokenize: re.findall(r"[A-Za-z0-9_-]+", message), the maximal runs left to right
tokenize(msg) ==
    LET starts == {i \in 1..Len(msg) :
                      IsTokenChar(msg[i]) /\ (i = 1 \/ ~IsTokenChar(msg[i - 1]))}
        ends == {i \in 1..Len(msg) :
                    IsTokenChar(msg[i]) /\ (i = Len(msg) \/ ~IsTokenChar(msg[i + 1]))}
        from == Ascending(starts)
        to == Ascending(ends)
    IN  [k \in 1..Len(from) |-> SubSeq(msg, from[k], to[k])]

\* GUID_REGEX.fullmatch(tok)
GuidFullMatch(tok) ==
    /\ Len(tok) = GuidLen
    /\ \A i \in 1..GuidLen :
          IF i \in GuidHyphens THEN tok[i] = "-" ELSE tok[i] \in HexDigits

\* GuidCandidate for the token at (1-based) position i
GuidCandidate(tokens, i) ==
    LET lower_tokens == [t \in 1..Len(tokens) |-> Lower(tokens[t])]
        start == Max(1, i - WINDOW)
        end == IF Len(tokens) <= i + WINDOW THEN Len(tokens) ELSE i + WINDOW
        context_slice == Range(SubSeq(lower_tokens, start, end))
        score(role) == Cardinality({kw \in Range(ROLE_KEYWORDS[role]) : kw \in context_slice})
    IN  [guid |-> tokens[i],
         index |-> i - 1,
         window_text |-> JoinSpace(SubSeq(tokens, start, end)),
         role_scores |-> [role \in {r \in DOMAIN ROLE_KEYWORDS : score(r) > 0} |-> score(role)]]

\* extract_guid_candidates
extract_guid_candidates(msg) ==
    LET tokens == tokenize(msg)
        at == Ascending({i \in 1..Len(tokens) : GuidFullMatch(tokens[i])})
    IN  [k \in 1..Len(at) |-> GuidCandidate(tokens, at[k])]

\* GuidCandidate.to_public
to_public(c) == [guid |-> c.guid, window |-> c.window_text, scores |-> c.role_scores]

\* str.startswith
StartsWith(s, prefix) == MatchAt(s, 1, prefix)

\* the regex class [a-z0-9]
LowerAlnum == Range(LowerCase) \cup Digits

\* re.search(root + r"[^a-z0-9]*" + re.escape(guid), text)
RootBeforeGuid(root, guid, text) ==
    \E i \in 1..Len(text) :
        /\ MatchAt(text, i, root)
        /\ \E j \in (i + Len(root))..Len(text) :
              /\ MatchAt(text, j, guid)
              /\ \A k \in (i + Len(root))..(j - 1) :
                    text[k] \notin LowerAlnum

SlotRoots == <<<<"d", "e", "v", "i", "c", "e">>, <<"a", "c", "c", "o", "u", "n", "t">>, <<"c", "o", "n", "t", "e", "x", "t">>, <<"p", "o", "l", "i", "c", "y">>>>

\* the score of candidate c for a slot: its role score plus 2 for every slot
\* root the slot name starts with and the message shows right before the guid
slot_score(slot, c, message_lower) ==
    DictGet(c.role_scores, slot, 0)
    + 2 * Cardinality({r \in 1..Len(SlotRoots) :
                          /\ StartsWith(slot, SlotRoots[r])
                          /\ RootBeforeGuid(SlotRoots[r], c.guid, message_lower)})

\* the same decision with the margin test dropped
choose_best_if_clear_nomargin(slot, slot_scores, acc) ==
    IF slot_scores = <<>> THEN acc
    ELSE LET top_score == slot_scores[1].score
         IN  IF top_score > 0
             THEN [acc EXCEPT !.resolved =
                      [s \in DOMAIN @ \cup {slot} |->
                          IF s = slot THEN slot_scores[1].guid ELSE @[s]]]
             ELSE [acc EXCEPT !.ambiguities =
                      Append(@, [slot |-> slot, candidates |-> slot_scores])]

\* "Choose best if clear": assign the top of the sorted list when its score is
\* positive and leads the second by 2 or more, else record the ambiguity
choose_best_if_clear(slot, slot_scores, acc) ==
    IF slot_scores = <<>> THEN acc
    ELSE LET top_score == slot_scores[1].score
             second_score == IF Len(slot_scores) > 1 THEN slot_scores[2].score ELSE -1
         IN  IF top_score > 0 /\ (top_score - second_score) >= 2
             THEN [acc EXCEPT !.resolved =
                      [s \in DOMAIN @ \cup {slot} |->
                          IF s = slot THEN slot_scores[1].guid ELSE @[s]]]
             ELSE [acc EXCEPT !.ambiguities =
                      Append(@, [slot |-> slot, candidates |-> slot_scores])]

\* the loop over needed_slots
RECURSIVE ScoreSlots(_, _, _, _)
ScoreSlots(needed_slots, candidates, message_lower, acc) ==
    IF needed_slots = <<>> THEN acc
    ELSE LET slot == needed_slots[1]
             slot_scores == [c \in 1..Len(candidates) |->
                                [guid |-> candidates[c].guid,
                                 score |-> slot_score(slot, candidates[c], message_lower)]]
         IN  ScoreSlots(Tail(needed_slots), candidates, message_lower,
                        choose_best_if_clear(slot, SortByScoreDesc(slot_scores), acc))

\* resolve_entities with the one-candidate, one-slot shortcut returning empty-handed
resolve_entities_no_direct(msg, intent, needed_slots, state) ==
    LET candidates == extract_guid_candidates(msg)
        public == [c \in 1..Len(candidates) |-> to_public(candidates[c])]
        empty == [resolved |-> <<>>, ambiguities |-> <<>>]
        out == IF candidates = <<>> THEN empty
               ELSE IF Len(candidates) = 1 /\ Len(needed_slots) = 1
               THEN empty
               ELSE ScoreSlots(needed_slots, candidates, Lower(msg), empty)
    IN  [resolved |-> out.resolved,
         meta |-> [candidates |-> public, heuristic |-> TRUE,
                   ambiguities |-> out.ambiguities]]

\* resolve_entities: (resolved, meta)
resolve_entities(msg, intent, needed_slots, state) ==
    LET candidates == extract_guid_candidates(msg)
        public == [c \in 1..Len(candidates) |-> to_public(candidates[c])]
        empty == [resolved |-> <<>>, ambiguities |-> <<>>]
        out == IF candidates = <<>> THEN empty
               ELSE IF Len(candidates) = 1 /\ Len(needed_slots) = 1
               THEN [empty EXCEPT !.resolved =
                        [s \in {needed_slots[1]} |-> candidates[1].guid]]
               ELSE ScoreSlots(needed_slots, candidates, Lower(msg), empty)
    IN  [resolved |-> out.resolved,
         meta |-> [candidates |-> public, heuristic |-> TRUE,
                   ambiguities |-> out.ambiguities]]

Intents ==
    {"device_details", "compliance", "policy_status", "user_lookup", "tenant_info",
     "effective_groups", "applications", "mam_policy"}

\* needed_slots_for_intent
needed_slots_for_intent(intent) ==
    IF intent \in {"device_details", "compliance", "user_lookup", "applications"}
    THEN <<device_id>>
    ELSE IF intent \in {"policy_status", "mam_policy"} THEN <<device_id, context_id>>
    ELSE IF intent = "tenant_info" THEN <<account_id>>
    ELSE IF intent = "effective_groups" THEN <<device_id, account_id>>
    ELSE <<>>

ResolveEntities(intent, needed_slots, state) ==
    /\ resolve_call' = [op |-> "resolve_entities", intent |-> intent,
                        needed_slots |-> needed_slots, state |-> state,
                        ret |-> resolve_entities(message, intent, needed_slots, state)]
    /\ UNCHANGED <<message, trackerVars, storeVars, toolVars, parserVars, contextVars>>

\* Chat messages: up to MaxPhrases phrases joined by single spaces
GuidPlain == <<"0", "f", "0", "e", "0", "d", "0", "c", "-", "1", "1", "1", "1", "-", "2", "2", "2", "2", "-", "3", "3", "3", "3", "-", "a", "1", "b", "2", "c", "3", "d", "4", "e", "5", "f", "6">>

Phrases == {<<"D", "e", "v", "i", "c", "e">>, <<"a", "c", "c", "o", "u", "n", "t">>, <<"m", "y", " ", "t", "e", "n", "a", "n", "t", " ", "p", "o", "l", "i", "c", "y", " ", "c", "t", "x">>, GuidPlain, GuidValue}

Messages == {JoinSpace(ps) : ps \in SeqsUpTo(Phrases, MaxPhrases)}

\* the calls made: every intent with its slots, an unknown intent, and a
\* caller-chosen slot list with earlier state
ResolveCalls ==
    {[intent |-> i, needed_slots |-> needed_slots_for_intent(i), state |-> <<>>] :
        i \in Intents \cup {"unknown"}}
    \cup {[intent |-> "policy_status", needed_slots |-> <<policy_id, account_id>>,
           state |-> <<[slot |-> device_id, guid |-> GuidPlain]>>]}

DoResolveEntities ==
    \E c \in ResolveCalls : ResolveEntities(c.intent, c.needed_slots, c.state)

\* a message has arrived and nothing has been resolved yet
InitResolve ==
    /\ TrackerInit
    /\ StoreInit
    /\ ToolInit
    /\ OthersIdle
    /\ message \in Messages
    /\ resolve_call = NoResolve

----------------------------------------------------------------------------
(* Instruction parser: backend/mcp_servers/instructions/parser.py *)

\* str.splitlines() line boundaries
LineBreaks == {"\n", "\r", "\f"}

\* str.splitlines(): the lines without their terminators ("\r\n" is one break)
splitlines(content) ==
    LET breaks == {i \in 1..Len(content) :
                      /\ content[i] \in LineBreaks
                      /\ ~(content[i] = "\n" /\ i > 1 /\ content[i - 1] = "\r")}
        AfterBreak(i) == IF content[i] = "\r" /\ i < Len(content) /\ content[i + 1] = "\n"
                         THEN i + 2 ELSE i + 1
        LinesTo(ends) ==
            [k \in 1..Len(ends) |->
                SubSeq(content, IF k = 1 THEN 1 ELSE AfterBreak(ends[k - 1]), ends[k] - 1)]
    IN  CHOOSE lines \in
            {LinesTo(ends) : ends \in
                {Ascending(breaks \cup (IF content = <<>>
                                           \/ content[Len(content)] \in LineBreaks
                                        THEN {} ELSE {Len(content) + 1}))}} : TRUE

\* the backquote, which a TLA+ string cannot hold, is written "~" throughout
Backquote == "~"

\* the three backquotes that open and close a fenced block
CodeFence == <<Backquote, Backquote, Backquote>>

\* the first position at or after i that holds no whitespace
SkipSpace(s, i) ==
    LET stop == {k \in i..Len(s) : s[k] \notin Whitespace}
    IN  IF stop = {} THEN Len(s) + 1 ELSE CHOOSE k \in stop : \A j \in stop : k <= j

\* only whitespace from position i to the end
BlankFrom(s, i) == SkipSpace(s, i) = Len(s) + 1

\* re.IGNORECASE match of a literal at position i
MatchAtCI(s, i, sub) ==
    /\ i + Len(sub) - 1 <= Len(s)
    /\ \A j \in 1..Len(sub) : LowerChar(s[i + j - 1]) = LowerChar(sub[j])

\* str.startswith / s[i:]
From(s, i) == SubSeq(s, i, Len(s))

\* SCENARIO_HEADING: "###", whitespace, then the title
IsScenarioHeading(line) ==
    MatchAt(line, 1, <<"#", "#", "#">>) /\ Len(line) >= 4 /\ line[4] \in Whitespace

ScenarioHeadingTitle(line) == Strip(From(line, SkipSpace(line, 4)))

\* METADATA_START: "<!--" then blanks
IsMetadataStart(line) == MatchAt(line, 1, <<"<", "!", "-", "-">>) /\ BlankFrom(line, 5)

\* METADATA_END: "-->" then blanks
IsMetadataEnd(line) == MatchAt(line, 1, <<"-", "-", ">">>) /\ BlankFrom(line, 4)

\* the end of the \w+ run starting at i (i - 1 if there is none)
WordRunEnd(s, i) ==
    LET stop == {k \in i..Len(s) : ~IsWordChar(s[k])}
    IN  IF stop = {} THEN Len(s) ELSE (CHOOSE k \in stop : \A j \in stop : k <= j) - 1

\* METADATA_FIELD on the stripped line ("-", a \w+ field name, ":", the value):
\* <<field, value>> or <<>>
MetadataField(stripped) ==
    IF ~MatchAt(stripped, 1, <<"-">>) THEN <<>>
    ELSE LET w == SkipSpace(stripped, 2)
             e == WordRunEnd(stripped, w)
         IN  IF e >= w /\ e + 1 <= Len(stripped) /\ stripped[e + 1] = ":"
             THEN <<Lower(SubSeq(stripped, w, e)),
                    Strip(From(stripped, SkipSpace(stripped, e + 2)))>>
             ELSE <<>>

\* CODE_BLOCK_START: the fence, optionally kusto, sql or kql, then blanks; re.IGNORECASE
IsCodeBlockStart(line) ==
    /\ MatchAt(line, 1, CodeFence)
    /\ \/ BlankFrom(line, 4)
       \/ MatchAtCI(line, 4, <<"k", "u", "s", "t", "o">>) /\ BlankFrom(line, 9)
       \/ MatchAtCI(line, 4, <<"s", "q", "l">>) /\ BlankFrom(line, 7)
       \/ MatchAtCI(line, 4, <<"k", "q", "l">>) /\ BlankFrom(line, 7)

\* CODE_BLOCK_END: the fence then blanks
IsCodeBlockEnd(line) == MatchAt(line, 1, CodeFence) /\ BlankFrom(line, 4)

\* the end of the \d+ run starting at i (i - 1 if there is none)
DigitRunEnd(s, i) ==
    LET stop == {k \in i..Len(s) : s[k] \notin Digits}
    IN  IF stop = {} THEN Len(s) ELSE (CHOOSE k \in stop : \A j \in stop : k <= j) - 1

DigitValue ==
    [d \in Digits |-> CHOOSE n \in 0..9 :
        <<"0", "1", "2", "3", "4", "5", "6", "7", "8", "9">>[n + 1] = d]

\* int(s) for a string of decimal digits
RECURSIVE ParseInt(_)
ParseInt(s) ==
    IF s = <<>> THEN 0
    ELSE 10 * ParseInt(SubSeq(s, 1, Len(s) - 1)) + DigitValue[s[Len(s)]]

\* STEP_HEADING: "**Step", whitespace, digits, ":", whitespace, the shortest
\* text up to the next "**"; re.IGNORECASE:
\* <<group 1, group 2>> or <<>>
StepHeading(line) ==
    IF ~(MatchAtCI(line, 1, <<"*", "*", "s", "t", "e", "p">>) /\ Len(line) >= 7 /\ line[7] \in Whitespace)
    THEN <<>>
    ELSE LET d == SkipSpace(line, 7)
             e == DigitRunEnd(line, d)
         IN  IF ~(e >= d /\ e + 2 <= Len(line) /\ line[e + 1] = ":"
                  /\ line[e + 2] \in Whitespace)
             THEN <<>>
             ELSE LET t == SkipSpace(line, e + 2)
                      close == FindFrom(line, t, <<"*", "*">>)
                  IN  IF close = 0 THEN <<>>
                      ELSE <<SubSeq(line, d, e), SubSeq(line, t, close - 1)>>

\* PURPOSE_COMMENT: "//", blanks, "Purpose:", blanks, the text; re.IGNORECASE:
\* <<group 1>> or <<>>
PurposeComment(line) ==
    IF MatchAt(line, 1, <<"/", "/">>) /\ MatchAtCI(line, SkipSpace(line, 3), <<"p", "u", "r", "p", "o", "s", "e", ":">>)
    THEN <<From(line, SkipSpace(line, SkipSpace(line, 3) + 8))>>
    ELSE <<>>

\* CRITICAL_SECTION: the line starts with "**CRITICAL"; re.IGNORECASE
IsCriticalSection(line) == MatchAtCI(line, 1, <<"*", "*", "c", "r", "i", "t", "i", "c", "a", "l">>)

\* EXECUTION_SECTION: "**EXECUTION", whitespace, "INSTRUCTIONS"; re.IGNORECASE
IsExecutionSection(line) ==
    /\ MatchAtCI(line, 1, <<"*", "*", "e", "x", "e", "c", "u", "t", "i", "o", "n">>)
    /\ Len(line) >= 12 /\ line[12] \in Whitespace
    /\ MatchAtCI(line, SkipSpace(line, 12), <<"i", "n", "s", "t", "r", "u", "c", "t", "i", "o", "n", "s">>)

\* OUTPUT_FORMAT_SECTION: "**Output", whitespace, "Format"; re.IGNORECASE
IsOutputFormatSection(line) ==
    /\ MatchAtCI(line, 1, <<"*", "*", "o", "u", "t", "p", "u", "t">>)
    /\ Len(line) >= 9 /\ line[9] \in Whitespace
    /\ MatchAtCI(line, SkipSpace(line, 9), <<"f", "o", "r", "m", "a", "t">>)

\* str.split(sep) for a one-character sep
Split(s, sep) ==
    LET cuts == Ascending({i \in 1..Len(s) : s[i] = sep})
    IN  [k \in 1..(Len(cuts) + 1) |->
            SubSeq(s, IF k = 1 THEN 1 ELSE cuts[k - 1] + 1,
                      IF k = Len(cuts) + 1 THEN Len(s) ELSE cuts[k] - 1)]

\* [k.strip() for k in value.split(",")]
SplitList(value) ==
    LET parts == Split(value, ",") IN [k \in 1..Len(parts) |-> Strip(parts[k])]

\* str.strip(chars) / str.lstrip(chars)
StripChars(s, chars) ==
    LET keep == {i \in 1..Len(s) : s[i] \notin chars}
    IN  IF keep = {} THEN <<>>
        ELSE SubSeq(s, CHOOSE i \in keep : \A j \in keep : i <= j,
                       CHOOSE i \in keep : \A j \in keep : i >= j)

LStripChars(s, chars) ==
    LET keep == {i \in 1..Len(s) : s[i] \notin chars}
    IN  IF keep = {} THEN <<>> ELSE From(s, CHOOSE i \in keep : \A j \in keep : i <= j)

\* "\n".join(lines)
RECURSIVE JoinLines(_)
JoinLines(lines) ==
    IF lines = <<>> THEN <<>>
    ELSE IF Len(lines) = 1 THEN lines[1]
    ELSE lines[1] \o <<"\n">> \o JoinLines(Tail(lines))

\* str(n) for n >= 0
RECURSIVE FormatInt(_)
FormatInt(n) ==
    LET digit == <<CHOOSE d \in Digits : DigitValue[d] = n % 10>>
    IN  IF n < 10 THEN digit ELSE FormatInt(n \div 10) \o digit

\* InstructionsParser._generate_slug: lower-case, every run of characters
\* outside [a-z0-9] becomes one "-", outer "-" stripped
generate_slug(title) ==
    LET lower == Lower(title)
        kept == Ascending({i \in 1..Len(lower) :
                              \/ lower[i] \in LowerAlnum
                              \/ i = 1
                              \/ lower[i - 1] \in LowerAlnum})
    IN  StripChars([k \in 1..Len(kept) |->
                       IF lower[kept[k]] \in LowerAlnum THEN lower[kept[k]] ELSE "-"],
                   {"-"})

\* f"{slug}_step{number}"
StepQueryId(slug, number) == slug \o <<"_", "s", "t", "e", "p">> \o FormatInt(number)

\* the current_step dict of _parse_scenario
NewStep(number, title, slug, optional) ==
    [step_number |-> number, title |-> title, purpose |-> <<>>,
     query_id |-> StepQueryId(slug, number), query_text |-> <<>>, optional |-> optional]

\* "Save previous step": placeholders are extracted when the query text is
\* not empty, then QueryStep(**current_step) is appended
SaveStep(steps, current_step) ==
    IF current_step = None THEN steps
    ELSE LET cs == current_step[1]
         IN  Append(steps, [QueryStep(cs.step_number, cs.title, cs.query_id, cs.query_text)
                               EXCEPT !.purpose = cs.purpose, !.optional = cs.optional])

\* the locals of _parse_scenario before its loop
ParseStart(title) ==
    [slug |-> generate_slug(title), title |-> title, domain |-> <<>>, keywords |-> <<>>,
     required_identifiers |-> <<>>, aliases |-> <<>>, description |-> <<>>,
     critical_requirements |-> <<>>, steps |-> <<>>,
     in_metadata |-> FALSE, in_code_block |-> FALSE, in_critical |-> FALSE,
     in_execution |-> FALSE, in_output_format |-> FALSE,
     code_lines |-> <<>>, current_step |-> None, description_lines |-> <<>>]

\* the metadata branch: "- field: value" sets one field of scenario_data
ParseMetadata(st, line) ==
    LET m == MetadataField(Strip(line))
    IN  IF m = <<>> THEN st
        ELSE IF m[1] = <<"s", "l", "u", "g">> THEN [st EXCEPT !.slug = m[2]]
        ELSE IF m[1] = <<"d", "o", "m", "a", "i", "n">> THEN [st EXCEPT !.domain = m[2]]
        ELSE IF m[1] = <<"k", "e", "y", "w", "o", "r", "d", "s">> THEN [st EXCEPT !.keywords = SplitList(m[2])]
        ELSE IF m[1] = <<"r", "e", "q", "u", "i", "r", "e", "d", "_", "i", "d", "e", "n", "t", "i", "f", "i", "e", "r", "s">>
             THEN [st EXCEPT !.required_identifiers = SplitList(m[2])]
        ELSE IF m[1] = <<"a", "l", "i", "a", "s", "e", "s">> THEN [st EXCEPT !.aliases = SplitList(m[2])]
        ELSE IF m[1] = <<"d", "e", "s", "c", "r", "i", "p", "t", "i", "o", "n">> THEN [st EXCEPT !.description = m[2]]
        ELSE st

\* the characters a critical requirement line may start with
Bullets == {"-", "*"}

\* one pass of the while loop of _parse_scenario over a line that is not the
\* next scenario heading
ParseLine(st, line) ==
    IF IsMetadataStart(line) THEN [st EXCEPT !.in_metadata = TRUE]
    ELSE IF IsMetadataEnd(line) /\ st.in_metadata THEN [st EXCEPT !.in_metadata = FALSE]
    ELSE IF st.in_metadata THEN ParseMetadata(st, line)
    ELSE IF IsCriticalSection(line) THEN [st EXCEPT !.in_critical = TRUE]
    ELSE IF IsExecutionSection(line)
         THEN [st EXCEPT !.in_execution = TRUE, !.in_critical = FALSE]
    ELSE IF IsOutputFormatSection(line)
         THEN [st EXCEPT !.in_output_format = TRUE, !.in_execution = FALSE]
    ELSE IF st.in_critical /\ Strip(line) # <<>> /\ Strip(line)[1] \in Bullets
         THEN LET requirement == Strip(LStripChars(Strip(line), Bullets))
              IN  IF requirement # <<>>
                  THEN [st EXCEPT !.critical_requirements = Append(@, requirement)]
                  ELSE st
    ELSE IF StepHeading(line) # <<>>
         THEN LET number == ParseInt(StepHeading(line)[1])
                  step_title == Strip(StepHeading(line)[2])
              IN  [st EXCEPT
                     !.steps = SaveStep(@, st.current_step),
                     !.current_step =
                         Some(NewStep(number, step_title, st.slug,
                                      Contains(<<"o", "p", "t", "i", "o", "n", "a", "l">>, Lower(step_title)))),
                     !.code_lines = <<>>]
    ELSE IF st.in_code_block /\ IsCodeBlockEnd(line)
         THEN [st EXCEPT
                 !.in_code_block = FALSE,
                 !.current_step =
                     IF @ # None /\ st.code_lines # <<>>
                     THEN Some([@[1] EXCEPT !.query_text = Strip(JoinLines(st.code_lines))])
                     ELSE @,
                 !.code_lines = <<>>]
    ELSE IF IsCodeBlockStart(line) /\ ~st.in_metadata /\ ~st.in_code_block
         THEN [st EXCEPT
                 !.in_code_block = TRUE,
                 !.code_lines = <<>>,
                 !.current_step =
                     IF @ = None
                     THEN Some(NewStep(Len(st.steps) + 1, st.title, st.slug, FALSE))
                     ELSE @]
    ELSE IF st.in_code_block
         THEN IF PurposeComment(line) # <<>> /\ st.current_step # None
              THEN [st EXCEPT !.current_step =
                       Some([@[1] EXCEPT !.purpose = Strip(PurposeComment(line)[1])])]
              ELSE [st EXCEPT !.code_lines = Append(@, line)]
    ELSE IF st.current_step = None /\ Strip(line) # <<>> /\ ~st.in_metadata
         THEN [st EXCEPT !.description_lines = Append(@, Strip(line))]
    ELSE st

\* the while loop of _parse_scenario from line i: the locals when it stops
\* and the index it stopped at
RECURSIVE ParseLoop(_, _, _)
ParseLoop(lines, i, st) ==
    IF i > Len(lines) \/ IsScenarioHeading(lines[i]) THEN [st |-> st, next |-> i]
    ELSE CHOOSE end \in {ParseLoop(lines, i + 1, after) :
                             after \in {ParseLine(st, lines[i])}} : TRUE

\* InstructionsParser._parse_scenario from the heading at start_idx: the
\* Scenario (the fields the store and the tools read) and the next index
parse_scenario(lines, start_idx) ==
    LET Result(end) ==
            LET st == end.st
            IN  [scenario |->
                    [slug |-> st.slug, title |-> st.title, domain |-> st.domain,
                     keywords |-> st.keywords,
                     required_identifiers |-> st.required_identifiers,
                     aliases |-> st.aliases,
                     description |->
                         IF st.description = <<>> /\ st.description_lines # <<>>
                         THEN JoinSpace(st.description_lines) ELSE st.description,
                     steps |-> SaveStep(st.steps, st.current_step)],
                 next |-> end.next]
    IN  CHOOSE r \in
            {Result(end) : end \in
                {ParseLoop(lines, start_idx + 1,
                           ParseStart(ScenarioHeadingTitle(lines[start_idx])))}} : TRUE

\* the while loop of parse_content from line i
RECURSIVE ParseFrom(_, _, _)
ParseFrom(lines, i, found) ==
    IF i > Len(lines) THEN found
    ELSE IF IsScenarioHeading(lines[i])
         THEN CHOOSE all \in
                  {ParseFrom(lines, r.next,
                             IF r.scenario.steps # <<>> THEN Append(found, r.scenario)
                             ELSE found) : r \in {parse_scenario(lines, i)}} : TRUE
         ELSE ParseFrom(lines, i + 1, found)

\* InstructionsParser.parse_content
parse_content(content) ==
    CHOOSE all \in {ParseFrom(lines, 1, <<>>) : lines \in {splitlines(content)}} : TRUE

\* the loop of ScenarioStore.load_from_file: add_scenario for every parsed scenario
RECURSIVE AddAll(_, _)
AddAll(parsed, store) ==
    IF parsed = <<>> THEN store
    ELSE CHOOSE out \in
             {AddAll(Tail(parsed), next) : next \in
                 {[scenarios |-> DictPut(store.scenarios, parsed[1]),
                   keyword_index |-> IndexPut(store.keyword_index, parsed[1])]}} : TRUE

\* ScenarioStore.load_from_file
LoadFromFile ==
    \E loaded \in {AddAll(parse_content(instructions_md),
                          [scenarios |-> scenarios, keyword_index |-> keyword_index])} :
        /\ scenarios' = loaded.scenarios
        /\ keyword_index' = loaded.keyword_index
        /\ UNCHANGED <<search_call, trackerVars, toolVars, resolveVars, parserVars,
                       contextVars>>

\* Instruction files: a scenario heading followed by up to MaxBlocks blocks
\* (step headings, fenced blocks, prose, a further scenario heading)
BlockStep1 == <<"*", "*", "S", "t", "e", "p", " ", "1", ":", " ", "F", "i", "r", "s", "t", "*", "*">>

BlockStep2 == <<"*", "*", "s", "t", "e", "p", " ", " ", "2", ":", " ", "O", "p", "t", "i", "o", "n", "a", "l", " ", "s", "e", "c", "o", "n", "d", "*", "*", " ", "(", "i", "f", " ", "n", "e", "e", "d", "e", "d", ")">>

BlockFenceId == <<"~", "~", "~", "k", "u", "s", "t", "o", "\n", "T", " ", "|", " ", "w", "h", "e", "r", "e", " ", "a", " ", "=", "=", " ", "'", "<", "I", "d", ">", "'", " ", "o", "r", " ", "b", " ", "=", "=", " ", "'", "<", "I", "d", ">", "'", "\n", "~", "~", "~">>

BlockFenceN == <<"~", "~", "~", "\n", "/", "/", " ", "P", "u", "r", "p", "o", "s", "e", ":", " ", "c", "o", "u", "n", "t", "\n", "T", " ", "|", " ", "t", "a", "k", "e", " ", "<", "N", ">", " ", "<", "1", "x", ">", "\n", " ", " ", "|", " ", "p", "r", "o", "j", "e", "c", "t", " ", "<", "A", "_", "1", ">", "\n", "~", "~", "~", " ">>

BlockFenceBlank == <<"~", "~", "~", "K", "Q", "L", "\n", " ", " ", "\n", "~", "~", "~">>

BlockProse == <<"U", "s", "e", "s", " ", "<", "I", "d", ">", " ", "o", "f", " ", "t", "h", "e", " ", "d", "e", "v", "i", "c", "e", ".">>

BlockHeading == <<"#", "#", "#", " ", " ", "S", "e", "c", "o", "n", "d", " ", "O", "n", "e">>

\* a fenced block with an indented first line and a purpose comment that
\* is not its first line
BlockFenceMid == <<"~", "~", "~", "k", "u", "s", "t", "o", "\n", " ", " ", "T", "\n", "/", "/", " ", "P", "u", "r", "p", "o", "s", "e", ":", " ", "m", "i", "d", "\n", " ", " ", "|", " ", "t", "a", "k", "e", " ", "1", "\n", "~", "~", "~">>

\* a fenced block holding a line that looks like a step marker
BlockFenceMarker == <<"~", "~", "~", "k", "u", "s", "t", "o", "\n", "T", "\n", "*", "*", "S", "t", "e", "p", " ", "2", ":", " ", "I", "n", "n", "e", "r", "*", "*", "\n", "|", " ", "t", "a", "k", "e", " ", "1", "\n", "~", "~", "~">>

Blocks ==
    {BlockStep1, BlockStep2, BlockFenceId, BlockFenceN, BlockFenceBlank, BlockProse,
     BlockHeading, BlockFenceMid, BlockFenceMarker}

FirstHeading == <<"#", "#", "#", " ", "T", "p", "l">>

Documents ==
    {JoinLines(<<FirstHeading>> \o bs) : bs \in SeqsUpTo(Blocks, MaxBlocks)}

\* an instructions file on disk and an empty store
InitParse ==
    /\ TrackerInit
    /\ StoreInit
    /\ ToolInit
    /\ ResolveIdle
    /\ ContextIdle
    /\ instructions_md \in Documents

----------------------------------------------------------------------------
(* Conversation state: backend/services/conversation_state.py *)

tenant_id == <<"t", "e", "n", "a", "n", "t", "_", "i", "d">>

user_id == <<"u", "s", "e", "r", "_", "i", "d">>

scale_unit_name == <<"s", "c", "a", "l", "e", "_", "u", "n", "i", "t", "_", "n", "a", "m", "e">>

serial_number == <<"s", "e", "r", "i", "a", "l", "_", "n", "u", "m", "b", "e", "r">>

device_name == <<"d", "e", "v", "i", "c", "e", "_", "n", "a", "m", "e">>

azure_ad_device_id == <<"a", "z", "u", "r", "e", "_", "a", "d", "_", "d", "e", "v", "i", "c", "e", "_", "i", "d">>

primary_user == <<"p", "r", "i", "m", "a", "r", "y", "_", "u", "s", "e", "r">>

enrolled_by_user == <<"e", "n", "r", "o", "l", "l", "e", "d", "_", "b", "y", "_", "u", "s", "e", "r">>

last_updated == <<"l", "a", "s", "t", "_", "u", "p", "d", "a", "t", "e", "d">>

\* the identifier fields of the ConversationContext dataclass, in field order
IdentifierFields ==
    <<device_id, account_id, context_id, tenant_id, user_id, scale_unit_name,
      serial_number, device_name, azure_ad_device_id, primary_user, enrolled_by_user>>

Fields == Range(IdentifierFields) \cup {last_updated}

\* ConversationContext(): every field None
ConversationContext == [f \in Fields |-> None]

\* the methods the class defines, which hasattr finds like the fields
MethodNames ==
    {<<"u", "p", "d", "a", "t", "e", "_", "f", "r", "o", "m", "_", "q", "u", "e", "r", "y", "_", "r", "e", "s", "u", "l", "t">>, <<"_", "e", "x", "t", "r", "a", "c", "t", "_", "f", "r", "o", "m", "_", "d", "i", "c", "t">>, <<"_", "e", "x", "t", "r", "a", "c", "t", "_", "f", "r", "o", "m", "_", "r", "o", "w", "s">>,
     <<"g", "e", "t", "_", "a", "v", "a", "i", "l", "a", "b", "l", "e", "_", "c", "o", "n", "t", "e", "x", "t">>, <<"g", "e", "t", "_", "v", "a", "l", "u", "e">>}

\* key_mappings of _extract_from_dict and mappings of _extract_from_rows:
\* result key or column name, context field
key_mappings ==
    <<<<<<"D", "e", "v", "i", "c", "e", "I", "d">>, device_id>>,
      <<<<"A", "c", "c", "o", "u", "n", "t", "I", "d">>, account_id>>,
      <<<<"C", "o", "n", "t", "e", "x", "t", "I", "d">>, context_id>>,
      <<<<"T", "e", "n", "a", "n", "t", "I", "d">>, tenant_id>>,
      <<<<"U", "s", "e", "r", "I", "d">>, user_id>>,
      <<<<"S", "c", "a", "l", "e", "U", "n", "i", "t", "N", "a", "m", "e">>, scale_unit_name>>,
      <<<<"S", "e", "r", "i", "a", "l", "N", "u", "m", "b", "e", "r">>, serial_number>>,
      <<<<"D", "e", "v", "i", "c", "e", "N", "a", "m", "e">>, device_name>>,
      <<<<"A", "z", "u", "r", "e", "A", "d", "D", "e", "v", "i", "c", "e", "I", "d">>, azure_ad_device_id>>,
      <<<<"P", "r", "i", "m", "a", "r", "y", "U", "s", "e", "r">>, primary_user>>,
      <<<<"E", "n", "r", "o", "l", "l", "e", "d", "B", "y", "U", "s", "e", "r">>, enrolled_by_user>>>>

\* the aliases dict of get_value: separator-less name, context field
aliases ==
    <<<<<<"d", "e", "v", "i", "c", "e", "i", "d">>, device_id>>,
      <<<<"a", "c", "c", "o", "u", "n", "t", "i", "d">>, account_id>>,
      <<<<"c", "o", "n", "t", "e", "x", "t", "i", "d">>, context_id>>,
      <<<<"t", "e", "n", "a", "n", "t", "i", "d">>, tenant_id>>,
      <<<<"u", "s", "e", "r", "i", "d">>, user_id>>,
      <<<<"s", "c", "a", "l", "e", "u", "n", "i", "t", "n", "a", "m", "e">>, scale_unit_name>>,
      <<<<"s", "e", "r", "i", "a", "l", "n", "u", "m", "b", "e", "r">>, serial_number>>,
      <<<<"d", "e", "v", "i", "c", "e", "n", "a", "m", "e">>, device_name>>,
      <<<<"a", "z", "u", "r", "e", "a", "d", "d", "e", "v", "i", "c", "e", "i", "d">>, azure_ad_device_id>>,
      <<<<"p", "r", "i", "m", "a", "r", "y", "u", "s", "e", "r">>, primary_user>>,
      <<<<"e", "n", "r", "o", "l", "l", "e", "d", "b", "y", "u", "s", "e", "r">>, enrolled_by_user>>>>

\* Values found in query results: a str, an int (v is its decimal text) or
\* None (JSON null)
PyStr(s) == [t |-> "str", v |-> s]

PyInt(digits) == [t |-> "int", v |-> digits]

PyNone == [t |-> "none", v |-> "None"]

\* bool(value): None, "" and 0 are falsy
Truthy(value) ==
    ~ \/ value.t = "none"
      \/ (value.t = "str" /\ value.v = "")
      \/ (value.t = "int" /\ value.v = "0")

\* str(value)
Str(value) == value.v

\* the pair of a mapping table whose first component is name, <<>> if none
MappingOf(table, name) ==
    IF \E i \in 1..Len(table) : table[i][1] = name
    THEN table[CHOOSE i \in 1..Len(table) : table[i][1] = name]
    ELSE <<>>

\* the result key (column name) mapped to a field
KeyOf(field) == key_mappings[CHOOSE i \in 1..Len(key_mappings) : key_mappings[i][2] = field][1]

\* every key found overwrites the field, whatever its value
extract_from_dict_any_value(context, data) ==
    [f \in Fields |->
        IF f # last_updated /\ KeyOf(f) \in DOMAIN data
        THEN Some(Str(data[KeyOf(f)]))
        ELSE context[f]]

\* ConversationContext._extract_from_dict
extract_from_dict(context, data) ==
    [f \in Fields |->
        IF /\ f # last_updated
           /\ KeyOf(f) \in DOMAIN data
           /\ Truthy(data[KeyOf(f)])
        THEN Some(Str(data[KeyOf(f)]))
        ELSE context[f]]

\* col_index of _extract_from_rows: a repeated column name keeps its last position
ColIndex(columns, col) ==
    CHOOSE i \in 1..Len(columns) :
        columns[i] = col /\ \A j \in (i + 1)..Len(columns) : columns[j] # col

\* ConversationContext._extract_from_rows: the first row only
extract_from_rows(context, rows, columns) ==
    IF rows = <<>> \/ columns = <<>> THEN context
    ELSE LET first_row == rows[1]
         IN  [f \in Fields |->
                 IF /\ f # last_updated
                    /\ KeyOf(f) \in Range(columns)
                    /\ ColIndex(columns, KeyOf(f)) <= Len(first_row)
                    /\ Truthy(first_row[ColIndex(columns, KeyOf(f))])
                 THEN Some(Str(first_row[ColIndex(columns, KeyOf(f))]))
                 ELSE context[f]]

\* the loop of update_from_query_result over query_result["tables"]
RECURSIVE ExtractFromTables(_, _)
ExtractFromTables(context, tables) ==
    IF tables = <<>> THEN context
    ELSE ExtractFromTables(extract_from_rows(context, tables[1].rows, tables[1].columns),
                           Tail(tables))

\* ConversationContext.update_from_query_result; now is datetime.now().isoformat().
\* A query result is a dict (its "tables" entry, if any, apart from its other
\* keys) or some other object.
update_from_query_result(context, query_result, now) ==
    LET stamped == [context EXCEPT ![last_updated] = Some(now)]
    IN  IF ~query_result.is_dict THEN stamped
        ELSE extract_from_dict(
                 IF query_result.tables # None
                 THEN ExtractFromTables(stamped, query_result.tables[1])
                 ELSE stamped,
                 query_result.top)

\* ConversationContext.get_available_context: the fields that are not None,
\* last_updated apart
get_available_context(context) ==
    [f \in {g \in Range(IdentifierFields) : context[g] # None} |-> context[f][1]]

\* what getattr returns for a method name
BoundMethod == "<bound method>"

\* ConversationContext.get_value
get_value(context, key) ==
    LET normalized_key == ReplaceChar(Lower(key), " ", "_")
    IN  IF normalized_key \in Fields THEN context[normalized_key]
        ELSE IF normalized_key \in MethodNames THEN Some(BoundMethod)
        ELSE IF MappingOf(aliases, normalized_key) # <<>>
             THEN context[MappingOf(aliases, normalized_key)[2]]
        ELSE None

\* ConversationStateService._load_from_file: the context after it
load_from_file(context, file) == IF file # None THEN file[1] ELSE context

\* The module-level API and the service methods, the file written by
\* _save_to_file being asdict(context)

\* get_conversation_state_service
GetConversationStateService ==
    /\ conversation_state_service' =
          IF conversation_state_service = None
          THEN Some([context |-> load_from_file(ConversationContext, session_file)])
          ELSE conversation_state_service
    /\ context_call' = [op |-> "get_conversation_state_service"]
    /\ UNCHANGED <<session_file, trackerVars, storeVars, toolVars, resolveVars, parserVars>>

\* reset_conversation_state
ResetConversationState ==
    /\ IF conversation_state_service # None
       THEN /\ conversation_state_service' = Some([context |-> ConversationContext])
            /\ session_file' = Some(ConversationContext)
       ELSE UNCHANGED <<conversation_state_service, session_file>>
    /\ context_call' = [op |-> "reset_conversation_state"]
    /\ UNCHANGED <<trackerVars, storeVars, toolVars, resolveVars, parserVars>>

\* ConversationStateService.clear_context
ClearContext ==
    /\ conversation_state_service # None
    /\ conversation_state_service' = Some([context |-> ConversationContext])
    /\ session_file' = Some(ConversationContext)
    /\ context_call' = [op |-> "clear_context"]
    /\ UNCHANGED <<trackerVars, storeVars, toolVars, resolveVars, parserVars>>

\* ConversationStateService.update_from_query_result
UpdateFromQueryResult(query_result, now) ==
    /\ conversation_state_service # None
    /\ LET context == update_from_query_result(conversation_state_service[1].context,
                                               query_result, now)
       IN  /\ conversation_state_service' = Some([context |-> context])
           /\ session_file' = Some(context)
    /\ context_call' = [op |-> "update_from_query_result", query_result |-> query_result]
    /\ UNCHANGED <<trackerVars, storeVars, toolVars, resolveVars, parserVars>>

\* ConversationStateService.get_context_value
GetContextValue(key) ==
    /\ conversation_state_service # None
    /\ context_call' = [op |-> "get_context_value", key |-> key,
                        result |-> get_value(conversation_state_service[1].context, key)]
    /\ UNCHANGED <<conversation_state_service, session_file, trackerVars, storeVars,
                   toolVars, resolveVars, parserVars>>

\* ConversationStateService.get_all_context
GetAllContext ==
    /\ conversation_state_service # None
    /\ context_call' = [op |-> "get_all_context",
                        result |-> get_available_context(
                                       conversation_state_service[1].context)]
    /\ UNCHANGED <<conversation_state_service, session_file, trackerVars, storeVars,
                   toolVars, resolveVars, parserVars>>

\* Inputs of the conversation-state operations
DeviceIdKey == <<"D", "e", "v", "i", "c", "e", "I", "d">>

AccountIdKey == <<"A", "c", "c", "o", "u", "n", "t", "I", "d">>

DeviceValues == {PyStr("d1"), PyStr("d2"), PyStr(""), PyNone, PyInt("0"), PyInt("7")}

AccountValues == {PyStr("a1"), PyStr(""), PyNone}

\* flat records: some of the two keys, each with one of its values
TopDicts ==
    {<<>>}
    \cup {(DeviceIdKey :> d) : d \in DeviceValues}
    \cup {(AccountIdKey :> a) : a \in AccountValues}
    \cup {(DeviceIdKey :> d) @@ (AccountIdKey :> a) : d \in DeviceValues, a \in AccountValues}

TableBoth ==
    [columns |-> <<DeviceIdKey, AccountIdKey>>,
     rows |-> <<<<PyStr("d1"), PyStr("a1")>>, <<PyStr("d2"), PyStr("a2")>>>>]

TableShortRow ==
    [columns |-> <<AccountIdKey, DeviceIdKey>>, rows |-> <<<<PyStr("a2")>>>>]

TableNulls ==
    [columns |-> <<DeviceIdKey, AccountIdKey>>, rows |-> <<<<PyNone, PyStr("")>>>>]

TableTwiceDevice ==
    [columns |-> <<DeviceIdKey, DeviceIdKey>>, rows |-> <<<<PyStr("d1"), PyStr("d2")>>>>]

TableNoRows == [columns |-> <<DeviceIdKey>>, rows |-> <<>>]

Tables == {TableBoth, TableShortRow, TableNulls, TableTwiceDevice, TableNoRows}

\* the length of a result's table list
MaxTables == 2

QueryResults ==
    {[is_dict |-> TRUE, tables |-> None, top |-> d] : d \in TopDicts}
    \cup {[is_dict |-> TRUE, tables |-> Some(ts), top |-> <<>>] :
             ts \in SeqsUpTo(Tables, MaxTables)}
    \cup {[is_dict |-> TRUE, tables |-> Some(<<TableBoth>>), top |-> (DeviceIdKey :> d)] :
             d \in {PyStr("d2"), PyStr("")}}
    \cup {[is_dict |-> FALSE, tables |-> None, top |-> <<>>]}

Timestamps == {"t1", "t2"}

ContextKeys ==
    {<<"D", "e", "v", "i", "c", "e", "I", "d">>, <<"d", "e", "v", "i", "c", "e", "_", "i", "d">>, <<"d", "e", "v", "i", "c", "e", " ", "i", "d">>, <<"D", "E", "V", "I", "C", "E", " ", "I", "D">>, <<"D", "e", "v", "i", "c", "e", "-", "I", "d">>,
     <<"d", "e", "v", "i", "c", "e", "i", "d">>, <<"A", "c", "c", "o", "u", "n", "t", "_", "I", "d">>, <<"a", "c", "c", "o", "u", "n", "t", "i", "d">>, <<"a", "c", "c", "o", "u", "n", "t", "-", "i", "d">>, <<"p", "o", "l", "i", "c", "y", "_", "i", "d">>,
     <<"l", "a", "s", "t", " ", "u", "p", "d", "a", "t", "e", "d">>, <<"g", "e", "t", " ", "v", "a", "l", "u", "e">>, <<"d", "e", "v", "i", "c", "e">>}

\* a state file left by an earlier session
PersistedContext ==
    [ConversationContext EXCEPT ![device_id] = Some("d0"), ![tenant_id] = Some("t0"),
                                ![last_updated] = Some("t0")]

DoUpdateFromQueryResult ==
    \E query_result \in QueryResults, now \in Timestamps :
        UpdateFromQueryResult(query_result, now)

DoGetContextValue == \E key \in ContextKeys : GetContextValue(key)

\* the module just imported; the state file absent, blank, or left by an
\* earlier session
InitContext ==
    /\ TrackerInit
    /\ StoreInit
    /\ ToolInit
    /\ ResolveIdle
    /\ ParserIdle
    /\ conversation_state_service = None
    /\ session_file \in {None, Some(ConversationContext), Some(PersistedContext)}
    /\ context_call = NoContextCall

----------------------------------------------------------------------------
(* Placeholder names put to the type inference *)

\* the number of words a placeholder name is made of
MaxWords == 2

NameWords ==
    { <<"I", "d">>, <<"I", "D">>, <<"L", "i", "s", "t">>, <<"T", "i", "m", "e">>, <<"D", "a", "t", "e">>, <<"C", "o", "u", "n", "t">>, <<"L", "i", "m", "i", "t">>, <<"N", "a", "m", "e">>, <<"G", "r", "o", "u", "p">>, <<"x">> }

PlaceholderNames == {Flatten(ws) : ws \in SeqsUpTo(NameWords, MaxWords) \ {<<>>}}

\* InstructionsParser._infer_placeholder_type applied to one name
InferPlaceholderType(name) ==
    /\ tool_call' = [name |-> "infer_placeholder_type", placeholder |-> name,
                     response |-> infer_placeholder_type(name)]
    /\ UNCHANGED <<storeVars, trackerVars, resolveVars, parserVars, contextVars>>

DoInferPlaceholderType == \E name \in PlaceholderNames : InferPlaceholderType(name)

----------------------------------------------------------------------------
(* Specifications *)

Init == TrackerInit /\ StoreInit /\ ToolInit /\ ResolveIdle /\ OthersIdle

\* the execution tracker
Next ==
    \/ DoStartScenario
    \/ DoGetScenarioResult
    \/ ClearScenario
    \/ DoMarkStepComplete
    \/ DoMarkStepFailed
    \/ DoMarkStepSkipped
    \/ GetNextPendingStep
    \/ IsComplete
    \/ GetProgressSummary

Spec == Init /\ [][Next]_vars

\* the scenario store
NextSearch ==
    \/ DoAddScenario
    \/ DoSearch
    \/ DoGetScenario

SpecSearch == Init /\ [][NextSearch]_vars

\* the placeholder tools over a loaded store
NextSubst ==
    \/ DoGetQuery
    \/ DoValidatePlaceholders
    \/ DoSubstituteAndGetQuery

SpecSubst == InitSubst /\ [][NextSubst]_vars

\* the entity resolver over one message
NextResolve == DoResolveEntities

SpecResolve == InitResolve /\ [][NextResolve]_vars

\* the parser and the store it loads
NextParse == LoadFromFile

SpecParse == InitParse /\ [][NextParse]_vars

\* a run driven by the event callback alone
NextRun ==
    \/ DoGetScenarioResult
    \/ DoExecuteQueryResult
    \/ ClearScenario
    \/ GetNextPendingStep
    \/ IsComplete
    \/ GetProgressSummary

SpecRun == Init /\ [][NextRun]_vars

\* the type inference over placeholder names
NextInfer == DoInferPlaceholderType

SpecInfer == Init /\ [][NextInfer]_vars

\* the conversation-state service
NextContext ==
    \/ GetConversationStateService
    \/ ResetConversationState
    \/ ClearContext
    \/ DoUpdateFromQueryResult
    \/ DoGetContextValue
    \/ GetAllContext

SpecContext == InitContext /\ [][NextContext]_vars

----------------------------------------------------------------------------
(* Claims about the scenario execution tracker *)

MarkOps == {"mark_step_complete", "mark_step_failed", "mark_step_skipped"}

SameRunOps == MarkOps \cup {"get_next_pending_step", "is_complete", "get_progress_summary"}

PendingKeys(e) == {k \in DOMAIN e.steps : e.steps[k].status = "pending"}

\* C1: across every mark_step_complete / mark_step_failed / mark_step_skipped
\* call (any step number, tracked or not, repeated or not) current_step of the
\* execution never decreases.
C1_CurrentStepNeverDecreases ==
    [][call'.op \in MarkOps =>
          active_scenario'[1].current_step >= active_scenario[1].current_step]_vars

\* C1 witness: a Mark* call has just named a tracked step below current_step.
C1_Witness ==
    /\ call.op \in MarkOps
    /\ active_scenario # None
    /\ call.step \in DOMAIN active_scenario[1].steps
    /\ call.step < active_scenario[1].current_step

\* C2 (as claimed): a Mark* call naming a step whose status is not pending
\* leaves the execution (status, payloads, current_step) exactly as it was.
C2_MarkNonPendingIsNoOp ==
    [][(/\ call'.op \in MarkOps
        /\ call'.step \in DOMAIN active_scenario[1].steps
        /\ active_scenario[1].steps[call'.step].status # "pending")
       => active_scenario' = active_scenario]_vars

\* C3: within one execution a step that has left pending is never pending
\* again, whatever Mark* / get_next_pending_step / is_complete /
\* get_progress_summary calls follow.
C3_StatusNeverReturnsToPending ==
    [][call'.op \in SameRunOps =>
          \A k \in DOMAIN active_scenario[1].steps :
              active_scenario[1].steps[k].status # "pending" =>
                  /\ k \in DOMAIN active_scenario'[1].steps
                  /\ active_scenario'[1].steps[k].status # "pending"]_vars

\* C3 witness: a step that was completed earlier (it holds a result) has just
\* been marked failed, i.e. a Mark* call hit a step that was not pending.
C3_Witness ==
    /\ call.op = "mark_step_failed"
    /\ active_scenario # None
    /\ call.step \in DOMAIN active_scenario[1].steps
    /\ active_scenario[1].steps[call.step].result # NoPayload
    /\ active_scenario[1].steps[call.step].status = "failed"

\* C4 (as claimed): get_next_pending_step returns the pending step with the
\* smallest step_number, or nothing when no step is pending.
C4_NextPendingIsLowestNumbered ==
    (call.op = "get_next_pending_step" /\ active_scenario # None) =>
        LET e == active_scenario[1]
            pend == PendingKeys(e)
        IN  call.ret = IF pend = {} THEN None
                       ELSE Some(e.steps[CHOOSE k \in pend : \A j \in pend : k <= j])

\* C5 (as claimed): whenever is_complete() is true no step is pending and
\* get_next_pending_step returns nothing.
C5_CompleteMeansNoPending ==
    (active_scenario # None /\ is_complete(active_scenario[1])) =>
        /\ PendingKeys(active_scenario[1]) = {}
        /\ get_next_pending_step(active_scenario[1]) = None

----------------------------------------------------------------------------
(* Claims about the scenario store *)

\* position of the summary with this slug in a result list, 0 if absent
RankOf(results, slug) ==
    IF \E i \in 1..Len(results) : results[i].slug = slug
    THEN CHOOSE i \in 1..Len(results) : results[i].slug = slug
    ELSE 0

\* the exact-slug test of search itself: the query, lower-cased, stripped and
\* with its separators normalized, equals the stored slug
QueryIsSlug(query, slug) ==
    \/ Strip(Lower(query)) = slug
    \/ NormalizeSeparators(Strip(Lower(query))) = slug

\* the widest reading of "matches after normalization": both sides normalized
QueryIsSlugNormalized(query, slug) ==
    NormalizeSeparators(Strip(Lower(query))) = NormalizeSeparators(Strip(Lower(slug)))

\* C6 (as claimed): search with an empty query and no domain filter returns an
\* empty list, whatever scenarios are indexed.
C6_EmptyQueryReturnsNothing ==
    (search_call.op = "search" /\ search_call.query = <<>> /\ search_call.domain = <<>>)
        => search_call.results = <<>>

\* C7 (as claimed): without a domain filter, a scenario A whose slug the query
\* matches exactly is ranked strictly before every scenario B whose slug the
\* query does not match.
C7_ExactSlugOutranks ==
    (search_call.op = "search" /\ search_call.domain = <<>>) =>
        \A a, b \in 1..Len(scenarios) :
            (/\ QueryIsSlug(search_call.query, scenarios[a].slug)
             /\ ~QueryIsSlugNormalized(search_call.query, scenarios[b].slug))
            => /\ RankOf(search_call.results, scenarios[a].slug) > 0
               /\ RankOf(search_call.results, scenarios[b].slug) > 0 =>
                    RankOf(search_call.results, scenarios[a].slug)
                        < RankOf(search_call.results, scenarios[b].slug)

----------------------------------------------------------------------------
(* Claims about the placeholder tools *)

\* the step a substitute_and_get_query call resolved its query_id to
CalledStep == get_query_step(scenarios, tool_call.query_id)[1].step

\* C8 (as claimed): when substitute_and_get_query succeeds on a step whose
\* required placeholders are all supplied and whose values pass validation,
\* the returned query text holds no <Name> token of any supplied name,
\* whatever the order of the tokens and the content of the values.
C8_NoSuppliedTokenRemains ==
    (/\ tool_call.name = "substitute_and_get_query"
     /\ tool_call.response.status = "success"
     /\ validate_placeholder_values(CalledStep, tool_call.placeholder_values).valid)
    => \A name \in DOMAIN tool_call.placeholder_values :
           ~Contains(Token(name), tool_call.response.query_text)

----------------------------------------------------------------------------
(* Claims about the entity resolver *)

\* the candidates of the message under analysis
Candidates == extract_guid_candidates(message)

\* the scores resolve_entities computes for a slot, by candidate position
ScoreTable(slot, candidates) ==
    LET message_lower == Lower(message)
    IN  [c \in 1..Len(candidates) |-> slot_score(slot, candidates[c], message_lower)]

\* candidate c is the clear winner under these scores: positive, and 2 or
\* more ahead of every other candidate
ClearWinner(scores, c) ==
    /\ scores[c] > 0
    /\ \A d \in DOMAIN scores : d # c => scores[c] - scores[d] >= 2

\* the ambiguity entries recorded for a slot
AmbiguitiesOf(slot) ==
    SelectSeq(resolve_call.ret.meta.ambiguities, LAMBDA a : a.slot = slot)

\* an ambiguity entry lists every candidate with its score, no more, no less
IsFullList(entry, candidates, scores) ==
    LET pairs == [c \in 1..Len(candidates) |->
                     [guid |-> candidates[c].guid, score |-> scores[c]]]
    IN  /\ Len(entry.candidates) = Len(pairs)
        /\ \A c \in 1..Len(pairs) :
              Cardinality({i \in 1..Len(entry.candidates) : entry.candidates[i] = pairs[c]})
              = Cardinality({d \in 1..Len(pairs) : pairs[d] = pairs[c]})

\* the call went down the scoring path: candidates exist and it is not the
\* one-candidate, one-slot shortcut
InScoringPath ==
    /\ resolve_call.op = "resolve_entities"
    /\ Len(resolve_call.ret.meta.candidates) >= 1
    /\ ~(Len(resolve_call.ret.meta.candidates) = 1 /\ Len(resolve_call.needed_slots) = 1)

\* C9 (as claimed): resolve_entities never gives two different slots of its
\* resolved mapping the same candidate guid.
C9_NoGuidInTwoSlots ==
    resolve_call.op = "resolve_entities" =>
        \A s1, s2 \in DOMAIN resolve_call.ret.resolved :
            s1 # s2 => resolve_call.ret.resolved[s1] # resolve_call.ret.resolved[s2]

\* C10: in the scoring path a slot is assigned exactly when some candidate's
\* score for it is positive and at least 2 above every other candidate's, and
\* then it gets that candidate; every other slot (tie, near-tie, nothing
\* positive) stays unassigned and is recorded once as ambiguous with the full
\* candidate/score list.
C10_AssignOnlyClearWinner ==
    InScoringPath =>
        LET candidates == Candidates
            resolved == resolve_call.ret.resolved
        IN  \A k \in 1..Len(resolve_call.needed_slots) :
                LET slot == resolve_call.needed_slots[k]
                    scores == ScoreTable(slot, candidates)
                IN  IF \E c \in DOMAIN scores : ClearWinner(scores, c)
                    THEN /\ slot \in DOMAIN resolved
                         /\ \E c \in DOMAIN scores :
                               ClearWinner(scores, c) /\ resolved[slot] = candidates[c].guid
                         /\ AmbiguitiesOf(slot) = <<>>
                    ELSE /\ slot \notin DOMAIN resolved
                         /\ Len(AmbiguitiesOf(slot)) = 1
                         /\ IsFullList(AmbiguitiesOf(slot)[1], candidates, scores)

\* C10 witness: a scoring-path call over two or more candidates that assigned
\* one slot to a clear winner whose runner-up also scored, and recorded
\* another slot as ambiguous.
C10_Witness ==
    /\ InScoringPath
    /\ Len(resolve_call.ret.meta.candidates) >= 2
    /\ resolve_call.ret.meta.ambiguities # <<>>
    /\ \E slot \in DOMAIN resolve_call.ret.resolved :
          LET scores == ScoreTable(slot, Candidates)
          IN  \E c, d \in DOMAIN scores :
                  ClearWinner(scores, c) /\ d # c /\ scores[d] > 0

----------------------------------------------------------------------------
(* Claims about the instruction parser *)

\* the names of the <Name> tokens present in a text: a letter, then letters,
\* digits and underscores, between "<" and ">"
TokenNamesIn(text) ==
    {SubSeq(text, i + 1, j - 1) :
        <<i, j>> \in {p \in (1..Len(text)) \X (1..Len(text)) :
                         /\ p[2] >= p[1] + 2
                         /\ text[p[1]] = "<"
                         /\ text[p[2]] = ">"
                         /\ text[p[1] + 1] \in Letters
                         /\ \A k \in (p[1] + 1)..(p[2] - 1) : IsNameChar(text[k])}}

\* every step the store holds after loading
StoredSteps ==
    UNION {Range(scenarios[s].steps) : s \in 1..Len(scenarios)}

\* C11: for every QueryStep the parser produced, the keys of its placeholder
\* map are exactly the distinct <Name> tokens of its query text, each once
\* (whether the step had one fenced block, several, or none).
C11_PlaceholderKeysAreTokens ==
    \A step \in StoredSteps :
        /\ {step.placeholders[k].name : k \in 1..Len(step.placeholders)}
               = TokenNamesIn(step.query_text)
        /\ \A k, l \in 1..Len(step.placeholders) :
               step.placeholders[k].name = step.placeholders[l].name => k = l

\* C11 witness: a loaded scenario holds a step whose text repeats a token and
\* a step without any query text.
C11_Witness ==
    \E s \in 1..Len(scenarios) :
        /\ \E step \in Range(scenarios[s].steps) :
              Len(FindTokens(step.query_text)) > Cardinality(TokenNamesIn(step.query_text))
        /\ \E step \in Range(scenarios[s].steps) : step.query_text = <<>>

----------------------------------------------------------------------------
(* Claims about validation *)

\* the required placeholders of a step that a values map leaves out
MissingRequired(step, placeholder_values) ==
    {i \in 1..Len(step.placeholders) :
        /\ step.placeholders[i].required
        /\ step.placeholders[i].name \notin DOMAIN placeholder_values}

\* C12: validate_placeholder_values returns exactly one "not provided" error
\* naming each required placeholder of the step that is missing from the
\* values, its valid flag is true exactly when the error list is empty, and
\* the validate_placeholders tool reports that flag and those errors; a step
\* with a required placeholder validated against {} is therefore invalid.
C12_OneErrorPerMissingRequired ==
    (tool_call.name = "validate_placeholders" /\ tool_call.response.status # "not_found")
    => LET step == CalledStep
           values == tool_call.placeholder_values
           result == validate_placeholder_values(step, values)
           NotProvided(name) ==
               {k \in 1..Len(result.errors) :
                   /\ result.errors[k].placeholder = name
                   /\ result.errors[k].issue = "Required placeholder not provided"}
       IN  /\ \A i \in MissingRequired(step, values) :
                  Cardinality(NotProvided(step.placeholders[i].name)) = 1
           /\ \A k \in 1..Len(result.errors) :
                  result.errors[k].issue = "Required placeholder not provided"
                  => \E i \in MissingRequired(step, values) :
                         step.placeholders[i].name = result.errors[k].placeholder
           /\ result.valid <=> result.errors = <<>>
           /\ tool_call.response.valid = result.valid
           /\ ~result.valid => tool_call.response.errors = result.errors
           /\ (values = <<>> /\ MissingRequired(step, values) # {}) => ~result.valid

\* a step with two required placeholders validated against the empty map:
\* invalid, with one error for each
C12_Witness ==
    /\ tool_call.name = "validate_placeholders"
    /\ tool_call.response.status = "validation_failed"
    /\ tool_call.placeholder_values = <<>>
    /\ Len(CalledStep.placeholders) = 2
    /\ Len(tool_call.response.errors) = 2
    /\ tool_call.response.errors[1].placeholder # tool_call.response.errors[2].placeholder

\* the number of places where old occurs in s
Occurrences(s, old) == Cardinality({k \in 1..Len(s) : MatchAt(s, k, old)})

\* C13: substitute_placeholders never fails for a missing value: every token
\* of the step's query text whose name is not among the values keeps all its
\* occurrences in the returned text and is named by a warning, and the
\* warning list is empty exactly when every token name of the text was
\* supplied; substitute_and_get_query returns that text and those warnings
\* whenever it does not stop on validation.
C13_MissingTokensKeptAndWarned ==
    (tool_call.name = "substitute_and_get_query" /\ tool_call.response.status # "not_found")
    => LET step == CalledStep
           values == tool_call.placeholder_values
           names == Range(FindTokens(step.query_text))
           result == substitute_placeholders(step, values)
       IN  /\ \A name \in names \ DOMAIN values :
                  /\ Occurrences(result.query_text, Token(name))
                         >= Occurrences(step.query_text, Token(name))
                  /\ name \in Range(result.warnings)
           /\ Range(result.warnings) \subseteq names \ DOMAIN values
           /\ result.warnings = <<>> <=> names \subseteq DOMAIN values
           /\ ~tool_call.validate => tool_call.response.status = "success"
           /\ tool_call.response.status = "success" =>
                  /\ tool_call.response.query_text = result.query_text
                  /\ tool_call.response.warnings = result.warnings

\* a text with both tokens substituted with a value for one of them only:
\* the other token is still there and a warning names it
C13_Witness ==
    /\ tool_call.name = "substitute_and_get_query"
    /\ tool_call.response.status = "success"
    /\ Range(FindTokens(CalledStep.query_text)) = {NameId, NameN}
    /\ DOMAIN tool_call.placeholder_values = {NameId}
    /\ tool_call.response.placeholders_used = {NameId}
    /\ tool_call.response.warnings = <<NameN>>
    /\ Contains(Token(NameN), tool_call.response.query_text)
    /\ ~Contains(Token(NameId), tool_call.response.query_text)

\* C14: validate_placeholders and substitute_and_get_query leave their
\* inputs as they were: the store (every step's query text and placeholder
\* map) is unchanged by a call, the values map as it stands after the call
\* gives the same response when the call is repeated, and a get_query
\* returns the template and the placeholders the store held before the call.
C14_ToolsLeaveInputsUntouched ==
    [][/\ tool_call'.name \in {"validate_placeholders", "substitute_and_get_query"}
          => /\ scenarios' = scenarios
             /\ keyword_index' = keyword_index
             /\ get_query_tool(scenarios', tool_call'.query_id)
                    = get_query_tool(scenarios, tool_call'.query_id)
       /\ tool_call'.name = "validate_placeholders"
          => tool_call'.response
                = validate_placeholders_tool(scenarios', tool_call'.query_id,
                                             tool_call'.placeholder_values)
       /\ tool_call'.name = "substitute_and_get_query"
          => tool_call'.response
                = substitute_and_get_query_tool(scenarios', tool_call'.query_id,
                                                tool_call'.placeholder_values,
                                                tool_call'.validate)
       /\ (tool_call'.name = "get_query" /\ tool_call'.response.status = "success")
          => LET before == get_query_step(scenarios, tool_call'.query_id)[1].step
             IN  /\ tool_call'.response.query_text = before.query_text
                 /\ [i \in 1..Len(tool_call'.response.placeholders) |->
                        tool_call'.response.placeholders[i].name]
                    = [i \in 1..Len(before.placeholders) |-> before.placeholders[i].name]
      ]_vars

\* a substitution that rewrote the text it returned while the stored step
\* still holds the template with its token
C14_Witness ==
    /\ tool_call.name = "substitute_and_get_query"
    /\ tool_call.response.status = "success"
    /\ tool_call.response.placeholders_used # {}
    /\ tool_call.response.query_text # CalledStep.query_text
    /\ get_query_tool(scenarios, tool_call.query_id).query_text = CalledStep.query_text
    /\ Contains(Token(NameId), CalledStep.query_text)
    /\ ~Contains(Token(NameId), tool_call.response.query_text)

----------------------------------------------------------------------------
(* Claims about the conversation state *)

\* the truthy values a query result carries for a context field: under its
\* top-level key, or in the first row of one of its tables under a column of
\* that name
Carried(query_result, field) ==
    IF ~query_result.is_dict THEN {}
    ELSE (IF KeyOf(field) \in DOMAIN query_result.top
          THEN {v \in {query_result.top[KeyOf(field)]} : Truthy(v)}
          ELSE {})
         \cup
         (IF query_result.tables = None THEN {}
          ELSE UNION {
                 LET table == query_result.tables[1][k]
                 IN  IF table.rows = <<>> THEN {}
                     ELSE {table.rows[1][i] :
                             i \in {j \in 1..Len(table.columns) :
                                      /\ table.columns[j] = KeyOf(field)
                                      /\ j <= Len(table.rows[1])
                                      /\ Truthy(table.rows[1][j])}}
                 : k \in 1..Len(query_result.tables[1])})

\* C15: the context is last-write-wins per key: an update that carries a
\* present, non-empty, non-null value for a key leaves that value (as text)
\* stored, an update that carries none leaves the key's stored value as it
\* was, and reading the context changes nothing; so after any sequence of
\* updates each key holds the value of the most recent update that supplied one.
C15_LastWriteWinsPerKey ==
    [][/\ (context_call'.op = "update_from_query_result"
           /\ conversation_state_service # None)
          => \A f \in Range(IdentifierFields) :
                 LET carried == Carried(context_call'.query_result, f)
                     old == conversation_state_service[1].context[f]
                     new == conversation_state_service'[1].context[f]
                 IN  IF carried = {} THEN new = old
                     ELSE new \in {Some(Str(v)) : v \in carried}
       /\ context_call'.op \in {"get_context_value", "get_all_context"}
          => conversation_state_service' = conversation_state_service
      ]_vars

\* an update with an empty DeviceId and a fresh AccountId, after an earlier
\* one that set the device: the device is kept, the account overwritten
C15_Witness ==
    /\ context_call.op = "update_from_query_result"
    /\ context_call.query_result.tables = None
    /\ DOMAIN context_call.query_result.top = {DeviceIdKey, AccountIdKey}
    /\ context_call.query_result.top[DeviceIdKey] = PyStr("")
    /\ context_call.query_result.top[AccountIdKey] = PyStr("a1")
    /\ conversation_state_service[1].context[device_id] = Some("d2")
    /\ conversation_state_service[1].context[account_id] = Some("a1")

\* a name in lower case with its word separators (space, underscore, hyphen)
\* removed
Squash(key) == SelectSeq(Lower(key), LAMBDA c : c \notin {" ", "_", "-"})

\* C16 (as claimed): get_context_value is insensitive to case and to word
\* separators: every key that spells a canonical identifier name, with any
\* letter case and with no separator, spaces, underscores or hyphens, returns
\* the value stored for that name, and every other key returns nothing.
C16_GetValueIgnoresCaseAndSeparators ==
    context_call.op = "get_context_value"
    => LET named == {f \in Range(IdentifierFields) :
                        Squash(f) = Squash(context_call.key)}
       IN  IF named = {} THEN context_call.result = None
           ELSE \A f \in named :
                    context_call.result = conversation_state_service[1].context[f]

\* what get_all_context returns to a caller that obtains the service now
AllContextAsRead ==
    get_available_context(
        IF conversation_state_service # None
        THEN conversation_state_service[1].context
        ELSE load_from_file(ConversationContext, session_file))

\* C17 (as claimed): after reset_conversation_state every key reads as
\* absent (get_all_context is empty), also when the reset comes before the
\* service was first obtained and a state file of an earlier session exists,
\* and it stays so until the next update.
C17_ResetMakesEveryKeyAbsent ==
    [][/\ context_call'.op = "reset_conversation_state"
          => DOMAIN AllContextAsRead' = {}
       /\ (DOMAIN AllContextAsRead = {}
           /\ context_call'.op # "update_from_query_result")
          => DOMAIN AllContextAsRead' = {}
      ]_vars

----------------------------------------------------------------------------
(* Claims about runs *)

\* every step pending, with no result and no error, and no progress
FreshRun(e) ==
    /\ e.current_step = 0
    /\ \A k \in DOMAIN e.steps :
          /\ e.steps[k].status = "pending"
          /\ e.steps[k].result = NoPayload
          /\ e.steps[k].error = NoPayload

\* C18: clear_scenario drops the active run entirely: after it there is no
\* active scenario, and a start_scenario that follows it gives a run whose
\* steps are all pending with no result or error and whose current_step is 0.
C18_ClearDropsTheRun ==
    [][/\ call'.op = "clear_scenario" => active_scenario' = None
       /\ (call.op = "clear_scenario" /\ call'.op = "start_scenario")
          => (active_scenario' # None /\ FreshRun(active_scenario'[1]))
      ]_vars

\* a run with a completed and a failed step has just been cleared
C18_Witness ==
    /\ call.op = "clear_scenario"
    /\ active_scenario = None
    /\ call.ret # None
    /\ call.ret[1].completed > 0
    /\ call.ret[1].failed > 0

\* C19 (as claimed): while a run for a slug is active and not complete, a
\* further get_scenario result for the same slug reaching the tracker keeps
\* every recorded step status and does not move current_step back.
C19_NoRestartMidRun ==
    [][(/\ active_scenario # None
        /\ ~is_complete(active_scenario[1])
        /\ call'.op = "get_scenario_result"
        /\ active_scenario' # None
        /\ active_scenario'[1].scenario_slug = active_scenario[1].scenario_slug)
       => /\ active_scenario'[1].current_step >= active_scenario[1].current_step
          /\ \A k \in DOMAIN active_scenario[1].steps :
                 /\ k \in DOMAIN active_scenario'[1].steps
                 /\ active_scenario'[1].steps[k].status
                        = active_scenario[1].steps[k].status
      ]_vars

----------------------------------------------------------------------------
(* Claims about what search leaves out *)

\* C20: search returns no scenario that should be excluded: with a domain
\* filter every returned scenario has exactly that domain, and with or
\* without one every returned scenario is a stored scenario whose total score
\* for the query is above 0.
C20_SearchExcludes ==
    search_call.op = "search"
    => \A k \in 1..Len(search_call.results) :
           LET r == search_call.results[k]
               i == IndexOfSlug(scenarios, r.slug)
           IN  /\ i > 0
               /\ search_call.domain # <<>> => r.domain = search_call.domain
               /\ scenarios[i].domain = r.domain
               /\ search_score(scenarios[i], search_call.query) > 0

\* a filtered search that returned a scenario and left out another one that
\* scores for the query but has a different domain
C20_Witness ==
    /\ search_call.op = "search"
    /\ search_call.domain # <<>>
    /\ Len(search_call.results) > 0
    /\ \E i \in 1..Len(scenarios) :
          /\ scenarios[i].domain # search_call.domain
          /\ search_score(scenarios[i], search_call.query) > 0
          /\ \A k \in 1..Len(search_call.results) :
                 search_call.results[k].slug # scenarios[i].slug

----------------------------------------------------------------------------
(* Claims about lookups *)

\* a key or a name in lower case with "_" and " " turned into "-"
NormalizedKey(s) == NormalizeSeparators(Lower(s))

\* C21 (as claimed): get_scenario resolves in a fixed priority order: the
\* scenario whose slug equals the key; else one whose slug equals the key
\* once both are case/separator-normalized; else one with an alias that
\* equals the key once both are normalized; else nothing.
C21_GetByKeyPriority ==
    search_call.op = "get_scenario"
    => LET key == search_call.query
           exact == {i \in 1..Len(scenarios) : scenarios[i].slug = key}
           by_slug == {i \in 1..Len(scenarios) :
                          NormalizedKey(scenarios[i].slug) = NormalizedKey(key)}
           by_alias == {i \in 1..Len(scenarios) :
                           \E a \in 1..Len(scenarios[i].aliases) :
                               NormalizedKey(Strip(scenarios[i].aliases[a]))
                                   = NormalizedKey(Strip(key))}
           Returned(S) == /\ search_call.results # None
                          /\ \E i \in S : search_call.results[1] = scenarios[i]
       IN  IF exact # {} THEN Returned(exact)
           ELSE IF by_slug # {} THEN Returned(by_slug)
           ELSE IF by_alias # {} THEN Returned(by_alias)
           ELSE search_call.results = None

----------------------------------------------------------------------------
(* Claims about what the parser emits *)

\* C22 (as claimed): in everything the parser emits and the store holds,
\* step_number is unique within each scenario and query_id is unique across
\* all steps of all scenarios, so get_query_step finds the one step carrying
\* a query_id; also for documents that mix an implicit first step with
\* "Step N" markers or repeat a step number.
C22_StepNumbersAndQueryIdsUnique ==
    \A i \in 1..Len(scenarios) :
        \A j \in 1..Len(scenarios[i].steps) :
            /\ \A k \in 1..Len(scenarios[i].steps) :
                   scenarios[i].steps[k].step_number = scenarios[i].steps[j].step_number
                   => k = j
            /\ \A i2 \in 1..Len(scenarios) :
                   \A j2 \in 1..Len(scenarios[i2].steps) :
                       scenarios[i2].steps[j2].query_id = scenarios[i].steps[j].query_id
                       => (i2 = i /\ j2 = j)
            /\ get_query_step(scenarios, scenarios[i].steps[j].query_id)
                  = Some([scenario |-> scenarios[i], step |-> scenarios[i].steps[j]])

\* C23 (as claimed): every scenario the parser emits and the store makes
\* retrievable has at least one executable step, that is a step with a
\* non-empty query text; a section with no step, or with step headings only,
\* is discarded.
C23_EveryScenarioHasAnExecutableStep ==
    \A i \in 1..Len(scenarios) :
        \E j \in 1..Len(scenarios[i].steps) : scenarios[i].steps[j].query_text # <<>>

\* the lines of the instructions file
FileLines == splitlines(instructions_md)

\* the file holds exactly one fenced block: an opening and a closing fence
OneFence ==
    /\ Cardinality({i \in 1..Len(FileLines) : MatchAt(FileLines[i], 1, CodeFence)}) = 2
    /\ \E o, c \in 1..Len(FileLines) :
          o < c /\ IsCodeBlockStart(FileLines[o]) /\ IsCodeBlockEnd(FileLines[c])

\* the lines between the two fences
FencedLines ==
    LET fences == {i \in 1..Len(FileLines) : MatchAt(FileLines[i], 1, CodeFence)}
        o == CHOOSE i \in fences : \A j \in fences : i <= j
        c == CHOOSE i \in fences : \A j \in fences : j <= i
    IN  SubSeq(FileLines, o + 1, c - 1)

\* C24 (as claimed): of a fenced block only a leading // Purpose: comment
\* line is left out of the query; every other line is kept exactly as
\* written and in order, so the stored query text is the block's lines minus
\* that leading comment.
C24_QueryTextIsTheBlockVerbatim ==
    (scenarios # <<>> /\ OneFence)
    => LET kept == IF FencedLines # <<>> /\ PurposeComment(FencedLines[1]) # <<>>
                   THEN Tail(FencedLines) ELSE FencedLines
       IN  \E step \in StoredSteps : step.query_text = JoinLines(kept)

\* C26 (as claimed): the fenced-block state takes precedence over heading
\* detection: a line inside an open fenced block that looks like a level-3
\* heading or a step marker is part of that block's query text and opens
\* neither a scenario nor a step.
C26_FenceBeforeHeadings ==
    (scenarios # <<>> /\ OneFence)
    => \A k \in 1..Len(FencedLines) :
           (IsScenarioHeading(FencedLines[k]) \/ StepHeading(FencedLines[k]) # <<>>)
           => /\ \E step \in StoredSteps : Contains(FencedLines[k], step.query_text)
              /\ StepHeading(FencedLines[k]) # <<>> =>
                    \A step \in StoredSteps :
                        step.title # Strip(StepHeading(FencedLines[k])[2])

----------------------------------------------------------------------------
(* Claims about placeholder types *)

\* C25 (as claimed): the type inferred for a name, case-insensitively: a
\* name containing "id" is guid, or guid_list if it also contains "list";
\* otherwise one containing "time" or "date" is datetime; otherwise one
\* containing "count" or "limit" is integer; otherwise string. A name
\* containing "list" but not "id" is therefore not guid_list.
C25_TypeInferenceRule ==
    tool_call.name = "infer_placeholder_type"
    => LET lower == Lower(tool_call.placeholder)
           Has(word) == Contains(word, lower)
       IN  tool_call.response =
               IF Has(<<"i", "d">>) THEN (IF Has(<<"l", "i", "s", "t">>) THEN "guid_list" ELSE "guid")
               ELSE IF Has(<<"t", "i", "m", "e">>) \/ Has(<<"d", "a", "t", "e">>) THEN "datetime"
               ELSE IF Has(<<"c", "o", "u", "n", "t">>) \/ Has(<<"l", "i", "m", "i", "t">>) THEN "integer"
               ELSE "string"

----------------------------------------------------------------------------
(* Claims about the tracking of delivered scenarios *)

\* C27 (as claimed): right after the tracking of a scenario is started from
\* the step records its get_scenario result delivers, the tracker holds one
\* tracked step for each record (tracked steps = total_steps = number of
\* records), every tracked step is pending and current_step is 0.
C27_OneTrackedStepPerRecord ==
    (call.op = "get_scenario_result" /\ call.ret # None)
    => /\ active_scenario # None
       /\ active_scenario[1].total_steps = call.ret[1]
       /\ Cardinality(DOMAIN active_scenario[1].steps) = call.ret[1]
       /\ \A k \in DOMAIN active_scenario[1].steps :
              active_scenario[1].steps[k].status = "pending"
       /\ active_scenario[1].current_step = 0

\* C28 (as claimed): a run of n >= 1 steps driven only by taking the next
\* pending step and marking it complete terminates: is_complete is true
\* exactly when n steps have been marked, and then no step is pending; when
\* there is no pending step left to take, the run is complete.
C28_DrivenRunCompletes ==
    (active_scenario # None /\ active_scenario[1].total_steps >= 1)
    => LET e == active_scenario[1]
       IN  /\ is_complete(e) <=> CountStatus(e, "completed") = e.total_steps
           /\ is_complete(e) => get_next_pending_step(e) = None
           /\ get_next_pending_step(e) = None => is_complete(e)

\* C29: when the message holds at least one GUID candidate, resolve_entities
\* leaves every requested slot in exactly one of its two outcomes: a key of the
\* resolved mapping, or the slot of an ambiguity entry; never both, never
\* neither.
C29_EverySlotResolvedOrAmbiguous ==
    (resolve_call.op = "resolve_entities" /\ Len(resolve_call.ret.meta.candidates) >= 1)
    => \A k \in 1..Len(resolve_call.needed_slots) :
          LET slot == resolve_call.needed_slots[k]
          IN  (slot \in DOMAIN resolve_call.ret.resolved) # (AmbiguitiesOf(slot) # <<>>)

\* C29 witness: a call for two or more slots over a message with candidates
\* that resolved one slot and recorded another as ambiguous.
C29_Witness ==
    /\ resolve_call.op = "resolve_entities"
    /\ Len(resolve_call.ret.meta.candidates) >= 1
    /\ Len(resolve_call.needed_slots) >= 2
    /\ \E j, k \in 1..Len(resolve_call.needed_slots) :
          /\ resolve_call.needed_slots[j] \in DOMAIN resolve_call.ret.resolved
          /\ AmbiguitiesOf(resolve_call.needed_slots[k]) # <<>>

\* C30: a substitute_and_get_query call with validate = true on a known query
\* either returns validation_failed, carrying the errors and no substituted
\* text, or returns success with an empty warnings list; a success that
\* carries a warning comes from a call with validate = false only.
C30_ValidatedSuccessHasNoWarnings ==
    (tool_call.name = "substitute_and_get_query" /\ tool_call.response.status # "not_found")
    => /\ tool_call.validate =>
              \/ /\ tool_call.response.status = "validation_failed"
                 /\ DOMAIN tool_call.response = {"status", "query_id", "errors"}
                 /\ tool_call.response.errors # <<>>
              \/ /\ tool_call.response.status = "success"
                 /\ tool_call.response.warnings = <<>>
       /\ (tool_call.response.status = "success" /\ tool_call.response.warnings # <<>>)
              => ~tool_call.validate

\* C30 witness: a validated call on a step with both tokens and a value for
\* each of them succeeded, with both names used and no warning.
C30_Witness ==
    /\ tool_call.name = "substitute_and_get_query"
    /\ tool_call.validate
    /\ tool_call.response.status = "success"
    /\ Range(FindTokens(CalledStep.query_text)) = {NameId, NameN}
    /\ tool_call.response.placeholders_used = {NameId, NameN}
    /\ tool_call.response.warnings = <<>>

====
